---- MODULE Spec2Model ----
(***************************************************************************)
(* A model of core/lib/src/rocket.rs: the deferred build pipeline of       *)
(* Rocket (mount / register / manage / attach, actualize_manifest) and the *)
(* per-request dispatch of a Manifest (preprocess_request, dispatch,       *)
(* route_and_process, route, handle_error).                                *)
(*                                                                         *)
(* Two specifications share the variables:                                 *)
(*   BuildSpec     the build pipeline of one Rocket value;                 *)
(*   DispatchSpec  one call of Manifest::dispatch on a built manifest.     *)
(***************************************************************************)
EXTENDS Integers, Sequences, FiniteSets, TLC

(***************************************************************************)
(* Bounds of the model.                                                    *)
(***************************************************************************)
\* longest route table a dispatch is checked against
MaxRoutes == 2
\* largest number of fairings attached to the manifest of a dispatch
MaxFairings == 1
\* largest number of operations queued on a Rocket in BuildSpec
MaxOps == 3
\* largest number of requests served after a launch in BuildSpec
MaxRequests == 2

(***************************************************************************)
(* Values.                                                                 *)
(***************************************************************************)
None == "none"
\* Option::None of a record type
NoManifest == [taken |-> TRUE]
NoRoute == [matched |-> FALSE]
NoOutcome == [kind |-> "None"]
NoCatcher == [found |-> FALSE]
NoRequest == [arrived |-> FALSE]

\* methods of the routes in the tables a dispatch is checked against
RouteMethods == {"GET", "HEAD"}
Ranks == {1, 2}

\* status codes: 404 and 500 have a default catcher, 599 has none
NotFound == [code |-> 404]
InternalServerError == [code |-> 500]

\* request bodies (Data): what a handler is given and what it forwards
DataValues == {"d0", "d1"}

\* cookies, named after the code that adds them to the request's jar
CookieNames == {"fairing", "handler", "catcher"}

Min(a, b) == IF a <= b THEN a ELSE b

(***************************************************************************)
(* Response: status, headers, optional body.  Two header names occur in    *)
(* rocket.rs: "Server" (a single value or absent) and the cookie headers   *)
(* adjoined from the jar's delta (a bag: cookie -> number of headers).     *)
(***************************************************************************)
\* the chunk size of a Body::Chunked made without one (Stream::from)
DefaultChunkSize == 4096

NoBody == [kind |-> "none", size |-> 0, bytes |-> 0, chunk_size |-> 0]
SizedBody(n) == [kind |-> "sized", size |-> n, bytes |-> n, chunk_size |-> 0]
ChunkedBody(n) ==
    [kind |-> "chunked", size |-> 0, bytes |-> n, chunk_size |-> DefaultChunkSize]

NoCookies == [c \in CookieNames |-> 0]

NewResponse(code, server, body) ==
    [status |-> code, server |-> server, set_cookie |-> NoCookies, body |-> body]

NoResponse == [status |-> 0, server |-> None, set_cookie |-> NoCookies, body |-> NoBody]

\* Response::adjoin_header(cookie): one more header for that cookie
AdjoinCookie(response, c) ==
    [response EXCEPT !.set_cookie[c] = @ + 1]

RECURSIVE AdjoinAll(_, _)
AdjoinAll(response, cs) ==
    IF cs = {} THEN response
    ELSE LET c == CHOOSE x \in cs : TRUE
         IN AdjoinAll(AdjoinCookie(response, c), cs \ {c})

\* Response::strip_body(): the bytes are dropped, the kind of the body and
\* the declared size of a sized body stay (Content-Length is written from it)
StripBody(response) == [response EXCEPT !.body.bytes = 0]

(***************************************************************************)
(* Manifest::write_response: the hyper response and the body stream.       *)
(***************************************************************************)
Digits == <<"0", "1", "2", "3", "4", "5", "6", "7", "8", "9">>

\* u64::to_string: the decimal digits, most significant first
RECURSIVE to_string(_)
to_string(n) ==
    IF n < 10 THEN <<Digits[n + 1]>>
    ELSE to_string(n \div 10) \o <<Digits[(n % 10) + 1]>>

\* no hyper response was sent
NoHyperResponse == [sent |-> FALSE]

\* the chunk size write_response streams a sized body with
SizedChunkSize == 4096

\* the hyper::Response write_response builds: the status and every header
\* of the response, then the Content-Length header for its kind of body
HyperResponse(written) ==
    [status |-> written.status,
     server |-> written.server,
     set_cookie |-> written.set_cookie,
     content_length |->
        CASE written.body.kind = "none" -> <<<<"0">>>>
          [] written.body.kind = "chunked" -> <<>>
          [] written.body.kind = "sized" -> <<to_string(written.body.size)>>,
     body |-> IF written.body.kind = "none" THEN "empty" ELSE "channel"]

\* Fault: every body is streamed in chunks of 4096 bytes.
ChunkSizeFixed(body) == SizedChunkSize

\* the chunk size write_response streams a body with
ChunkSize(body) ==
    IF body.kind = "chunked" THEN body.chunk_size ELSE SizedChunkSize

(***************************************************************************)
(* Text.  A str or byte slice is a sequence of one-character strings; the  *)
(* value "0xFF" stands for a byte that is not valid UTF-8.                 *)
(***************************************************************************)
InvalidByte == "0xFF"

Lower(c) ==
    CASE c = "G" -> "g" [] c = "E" -> "e" [] c = "T" -> "t" [] c = "H" -> "h"
      [] c = "A" -> "a" [] c = "D" -> "d" [] c = "P" -> "p" [] c = "O" -> "o"
      [] c = "S" -> "s" [] c = "U" -> "u" [] c = "L" -> "l" [] c = "I" -> "i"
      [] c = "N" -> "n" [] c = "R" -> "r" [] c = "C" -> "c"
      [] OTHER -> c

LowerStr(s) == [i \in 1..Len(s) |-> Lower(s[i])]

\* Method::as_str, lower-cased
MethodText ==
    [m \in {"GET", "PUT", "POST", "DELETE", "OPTIONS", "HEAD", "TRACE", "CONNECT", "PATCH"} |->
        CASE m = "GET" -> <<"g", "e", "t">>
          [] m = "PUT" -> <<"p", "u", "t">>
          [] m = "POST" -> <<"p", "o", "s", "t">>
          [] m = "DELETE" -> <<"d", "e", "l", "e", "t", "e">>
          [] m = "OPTIONS" -> <<"o", "p", "t", "i", "o", "n", "s">>
          [] m = "HEAD" -> <<"h", "e", "a", "d">>
          [] m = "TRACE" -> <<"t", "r", "a", "c", "e">>
          [] m = "CONNECT" -> <<"c", "o", "n", "n", "e", "c", "t">>
          [] m = "PATCH" -> <<"p", "a", "t", "c", "h">>]

AllMethods == DOMAIN MethodText

\* Method::from_str (str::parse): compares without case
ParseMethod(value) ==
    IF \E m \in AllMethods : MethodText[m] = LowerStr(value)
    THEN CHOOSE m \in AllMethods : MethodText[m] = LowerStr(value)
    ELSE None

MethodKey == <<"_", "m", "e", "t", "h", "o", "d">>
MethodGetField == <<"_", "m", "e", "t", "h", "o", "d", "=", "g", "e", "t">>
MethodDeleteField == <<"_", "m", "e", "t", "h", "o", "d", "=", "d", "e", "l", "e", "t", "e">>

\* std::str::from_utf8(..).is_ok()
ValidUtf8(bytes) == \A i \in 1..Len(bytes) : bytes[i] # InvalidByte

IndexOf(s, ch) ==
    IF \E i \in 1..Len(s) : s[i] = ch
    THEN CHOOSE i \in 1..Len(s) : s[i] = ch /\ \A j \in 1..(i - 1) : s[j] # ch
    ELSE 0

RECURSIVE SplitOn(_, _)
SplitOn(s, ch) ==
    LET i == IndexOf(s, ch)
    IN IF i = 0 THEN <<s>>
       ELSE <<SubSeq(s, 1, i - 1)>> \o SplitOn(SubSeq(s, i + 1, Len(s)), ch)

\* one "key=value" item: the key ends at the first '=', a missing '=' leaves
\* the value empty
FormItem(item) ==
    LET i == IndexOf(item, "=")
    IN IF i = 0 THEN [key |-> item, value |-> <<>>]
       ELSE [key |-> SubSeq(item, 1, i - 1), value |-> SubSeq(item, i + 1, Len(item))]

\* FormItems::from(form): the items between '&', empty ones skipped
FormItems(form) ==
    CHOOSE items \in
        {[i \in 1..Len(parts) |-> FormItem(parts[i])] :
            parts \in {SelectSeq(SplitOn(form, "&"), LAMBDA p : p # <<>>)}} : TRUE

(***************************************************************************)
(* Manifest::preprocess_request: the method the request has afterwards.    *)
(***************************************************************************)
\* Fault: the whole peek buffer is searched, not its first 14 bytes.
PreprocessWholePeek(method, is_form, peek) ==
    IF is_form /\ method = "POST" /\ Len(peek) >= Len(MethodGetField) /\ ValidUtf8(peek)
    THEN CHOOSE after \in
            {IF found # <<>> /\ ParseMethod(found[1].value) # None
             THEN ParseMethod(found[1].value)
             ELSE method :
                found \in {SelectSeq(FormItems(peek),
                                     LAMBDA item : item.key = MethodKey)}} : TRUE
    ELSE method

PreprocessMethod(method, is_form, peek) ==
    LET data_len == Len(peek)
        min_len == Len(MethodGetField)
        max_len == Len(MethodDeleteField)
    IN IF is_form /\ method = "POST" /\ data_len >= min_len
       THEN LET bytes == SubSeq(peek, 1, Min(data_len, max_len))
            IN IF ValidUtf8(bytes)
               THEN \* found: the items with the key "_method", computed once
                    CHOOSE after \in
                        {IF found # <<>> /\ ParseMethod(found[1].value) # None
                         THEN ParseMethod(found[1].value)
                         ELSE method :
                            found \in {SelectSeq(FormItems(bytes),
                                                 LAMBDA item : item.key = MethodKey)}} : TRUE
               ELSE method
       ELSE method

(***************************************************************************)
(* Routes and the router.  A URI path is its sequence of segments.         *)
(***************************************************************************)
NewRoute(method, path, rank) ==
    [method |-> method, base |-> <<>>, path |-> path, uri |-> path, rank |-> rank]

\* Route::set_uri(base, path): the route becomes reachable at base/path
SetUri(route, base) ==
    [route EXCEPT !.base = base, !.uri = base \o route.path]

\* a path that does not resolve against a base (Route::set_uri returns Err)
BadPath == <<"<bad>">>

\* Router::add
RouterAdd(router, route) == Append(router, route)

RECURSIVE SortByRank(_)
SortByRank(routes) ==
    IF routes = <<>> THEN <<>>
    ELSE LET i == CHOOSE k \in 1..Len(routes) :
                    /\ \A j \in 1..Len(routes) : routes[k].rank <= routes[j].rank
                    /\ \A j \in 1..(k - 1) : routes[j].rank # routes[k].rank
         IN <<routes[i]>> \o
            SortByRank(SubSeq(routes, 1, i - 1) \o SubSeq(routes, i + 1, Len(routes)))

\* Router::route(request): the routes matching the request's method and
\* path, lowest rank first, ties in the order they were added
RouterRoute(router, method, uri) ==
    SortByRank(SelectSeq(router, LAMBDA r : r.method = method /\ r.uri = uri))

\* Router::collisions(): two routes with the same method, path and rank
RouterCollides(router) ==
    \E i, j \in 1..Len(router) :
        /\ i < j
        /\ router[i].method = router[j].method
        /\ router[i].uri = router[j].uri
        /\ router[i].rank = router[j].rank

(***************************************************************************)
(* Catchers.  A catcher table maps a status code to a catcher.             *)
(***************************************************************************)
DefaultCodes == {404, 500}

NewCatcher(code, name) == [code |-> code, is_default |-> FALSE, name |-> name]

\* catcher::defaults::get()
DefaultCatchers ==
    [c \in DefaultCodes |-> [code |-> c, is_default |-> TRUE, name |-> "default"]]

\* HashMap::insert
MapInsert(map, key, value) ==
    [k \in DOMAIN map \cup {key} |-> IF k = key THEN value ELSE map[k]]

(***************************************************************************)
(* Manifest, as Rocket::configured builds it.                              *)
(***************************************************************************)
NoFairings == [all |-> <<>>, attach_failures |-> <<>>]

ConfiguredManifest ==
    [router |-> <<>>,
     default_catchers |-> DefaultCatchers,
     catchers |-> DefaultCatchers,
     state |-> [t \in {"ShutdownHandleManaged"} |-> "shutdown_handle"],
     frozen |-> FALSE,
     fairings |-> NoFairings]

(***************************************************************************)
(* Deferred build operations (enum BuildOperation).                        *)
(***************************************************************************)
OpMount(base, routes) == [op |-> "Mount", base |-> base, routes |-> routes]
OpRegister(cs) == [op |-> "Register", catchers |-> cs]
OpManage(type, value) == [op |-> "Manage", type |-> type, value |-> value]
OpAttach(fairing) == [op |-> "Attach", fairing |-> fairing]

\* A fairing: its name, whether it is an attach fairing, the build calls its
\* on_attach callback makes on the Rocket it is given, and whether the
\* callback returns Ok or Err.
NewFairing(name, is_attach, calls, ok) ==
    [name |-> name, is_attach |-> is_attach, calls |-> calls, ok |-> ok]

\* A Rocket during actualization: the manifest, the pending queue, a panic
\* (None while there is none) and the log of the operations applied so far.
NewRocket(manifest, pending, applied) ==
    [manifest |-> manifest, pending |-> pending, panic |-> None, applied |-> applied]

RECURSIVE MountMerged(_, _, _)

\* Fault: a route is not added when the router has one with its method and
\* declared path.
MountMerged(rocket, base, routes) ==
    IF routes = <<>> \/ rocket.panic # None THEN rocket
    ELSE LET route == Head(routes)
             known == \E i \in 1..Len(rocket.manifest.router) :
                         /\ rocket.manifest.router[i].path = route.uri
                         /\ rocket.manifest.router[i].method = route.method
         IN IF route.uri = BadPath
            THEN [rocket EXCEPT !.panic = "Invalid route URI."]
            ELSE MountMerged(
                    IF known THEN rocket
                    ELSE [rocket EXCEPT !.manifest.router =
                             RouterAdd(@, SetUri([route EXCEPT !.path = route.uri], base))],
                    base, Tail(routes))

\* Manifest::_mount
RECURSIVE _mount(_, _, _)
_mount(rocket, base, routes) ==
    IF routes = <<>> \/ rocket.panic # None THEN rocket
    ELSE LET route == Head(routes)
             path == route.uri
         IN IF path = BadPath
            THEN [rocket EXCEPT !.panic = "Invalid route URI."]
            ELSE _mount([rocket EXCEPT !.manifest.router =
                            RouterAdd(@, SetUri([route EXCEPT !.path = path], base))],
                        base, Tail(routes))

\* Fault: the active table is rebuilt from the catchers being registered.
RegisterAfresh(manifest, cs) ==
    [manifest EXCEPT !.catchers =
        [code \in {cs[i].code : i \in 1..Len(cs)} |->
            cs[CHOOSE i \in 1..Len(cs) :
                  /\ cs[i].code = code
                  /\ \A k \in (i + 1)..Len(cs) : cs[k].code # code]]]

\* Manifest::_register
RECURSIVE _register(_, _)
_register(manifest, cs) ==
    IF cs = <<>> THEN manifest
    ELSE _register([manifest EXCEPT !.catchers = MapInsert(@, Head(cs).code, Head(cs))],
                   Tail(cs))

\* Fault: a second value of a managed type replaces the first.
ManageOverwrite(rocket, type, value) ==
    [rocket EXCEPT !.manifest.state =
        [t \in DOMAIN @ \cup {type} |-> IF t = type THEN value ELSE @[t]]]

\* Manifest::_manage applied to the closure Rocket::manage queues:
\* Container::set refuses a type that is already set
_manage(rocket, type, value) ==
    IF type \in DOMAIN rocket.manifest.state
    THEN [rocket EXCEPT !.panic = "Aborting due to duplicately managed state."]
    ELSE [rocket EXCEPT !.manifest.state = MapInsert(@, type, value)]

\* Fairings::attach(fairing, rocket): an attach fairing's on_attach runs on
\* the rocket (queueing its build calls), a failure is recorded, and the
\* fairing is added to the list
FairingsAttach(fairings, fairing, rocket) ==
    [fairings |->
        [all |-> Append(fairings.all, fairing.name),
         attach_failures |->
            IF fairing.is_attach /\ ~fairing.ok
            THEN Append(fairings.attach_failures, fairing.name)
            ELSE fairings.attach_failures],
     rocket |->
        IF fairing.is_attach
        THEN [rocket EXCEPT !.pending = @ \o fairing.calls]
        ELSE rocket]

\* Fairings::append(others)
FairingsAppend(fairings, others) ==
    [all |-> fairings.all \o others.all,
     attach_failures |-> fairings.attach_failures \o others.attach_failures]

RECURSIVE actualize_manifest(_)

\* Fault: the Rocket handed to the fairing has the queue of the outer one.
HookRocketShared(rocket) ==
    NewRocket([rocket.manifest EXCEPT !.fairings = NoFairings],
              rocket.pending, rocket.applied)

\* _attach: Rocket { manifest: Some(self), pending: vec![] }, the Rocket handed
\* to the fairing; the fairings were moved out of the manifest before
HookRocket(rocket) ==
    NewRocket([rocket.manifest EXCEPT !.fairings = NoFairings],
              <<>>, rocket.applied)

\* Fault: the Rocket handed to the fairing is not actualized, so what the
\* hook queued on it is dropped.
AttachUndrained(rocket, fairing) ==
    LET fairings == rocket.manifest.fairings
        inner == HookRocket(rocket)
        attached == FairingsAttach(fairings, fairing, inner)
    IN [rocket EXCEPT
          !.manifest.fairings = FairingsAppend(attached.fairings, NoFairings)]

\* Fault: the fairings the hook attached are put in front of the list.
AttachNestedFirst(rocket, fairing) ==
    LET fairings == rocket.manifest.fairings
        inner == HookRocket(rocket)
        attached == FairingsAttach(fairings, fairing, inner)
        done == actualize_manifest(attached.rocket)
    IN [rocket EXCEPT
          !.manifest = [done.manifest EXCEPT
                           !.fairings = FairingsAppend(@, attached.fairings)],
          !.panic = done.panic,
          !.applied = done.applied]

\* Manifest::_attach
_attach(rocket, fairing) ==
    LET fairings == rocket.manifest.fairings
        inner == HookRocket(rocket)
        attached == FairingsAttach(fairings, fairing, inner)
        done == actualize_manifest(attached.rocket)
    IN [rocket EXCEPT
          !.manifest = [done.manifest EXCEPT
                           !.fairings = FairingsAppend(attached.fairings, @)],
          !.panic = done.panic,
          !.applied = done.applied]

\* one turn of the loop of actualize_manifest: the operation taken from the
\* head of the queue is applied to the manifest
ApplyOperation(rocket, op) ==
    LET logged == [rocket EXCEPT !.applied = Append(@, op)]
    IN CASE op.op = "Mount" -> _mount(logged, op.base, op.routes)
         [] op.op = "Register" ->
                [logged EXCEPT !.manifest = _register(@, op.catchers)]
         [] op.op = "Manage" -> _manage(logged, op.type, op.value)
         [] op.op = "Attach" -> _attach(logged, op.fairing)

\* Fault: one operation is taken from the queue instead of all of them.
ActualizeHead(rocket) ==
    IF rocket.pending = <<>> \/ rocket.panic # None THEN rocket
    ELSE ApplyOperation([rocket EXCEPT !.pending = Tail(@)], Head(rocket.pending))

RECURSIVE ActualizePop(_)

\* Fault: the loop takes the operations with Vec::pop, last queued first.
ActualizePop(rocket) ==
    IF rocket.pending = <<>> \/ rocket.panic # None THEN rocket
    ELSE ActualizePop(
            ApplyOperation([rocket EXCEPT !.pending = SubSeq(@, 1, Len(@) - 1)],
                           rocket.pending[Len(rocket.pending)]))

\* Rocket::actualize_manifest
actualize_manifest(rocket) ==
    IF rocket.pending = <<>> \/ rocket.panic # None THEN rocket
    ELSE actualize_manifest(
            ApplyOperation([rocket EXCEPT !.pending = Tail(@)], Head(rocket.pending)))

\* Rocket::actualize_and_take_manifest as it leaves the Rocket: a panic
\* leaves the manifest taken and not replaced
Actualized(rocket) ==
    LET done == actualize_manifest(rocket)
    IN IF done.panic # None THEN [done EXCEPT !.manifest = NoManifest] ELSE done

\* Fault: the lookup does not look at the type.
StateOfAny(container_of, type) ==
    container_of.state[CHOOSE t \in DOMAIN container_of.state : TRUE]

\* Manifest::routes: the iteration over the routes of the router
ManifestRoutes(routes_of) == routes_of.router

\* Manifest::state: Container::try_get
ManifestState(container_of, type) ==
    IF type \in DOMAIN container_of.state THEN container_of.state[type] ELSE None

\* Fault: the fairing failures are looked at before the collisions.
PrelaunchFailuresFirst(checked) ==
    IF checked.fairings.attach_failures # <<>> THEN "FailedFairings"
    ELSE IF RouterCollides(checked.router) THEN "Collision"
    ELSE None

\* Manifest::prelaunch_check: None for Ok(()), or the kind of the LaunchError
prelaunch_check(checked) ==
    IF RouterCollides(checked.router) THEN "Collision"
    ELSE IF checked.fairings.attach_failures # <<>> THEN "FailedFairings"
    ELSE None

\* the fairings of these specifications that have an on_launch hook
LaunchFairings == {"plain"}

\* Fairings::handle_launch: one hook per launch fairing, in attach order
handle_launch(fairings) ==
    [i \in 1..Len(SelectSeq(fairings.all, LAMBDA name : name \in LaunchFairings)) |->
        "launch hook"]

\* Fault: the launch fairings run before the state is frozen.
ListenHooksFirst(bound) ==
    [manifest |-> [bound EXCEPT !.frozen = TRUE],
     events |-> handle_launch(bound.fairings) \o <<"freeze", "serve">>]

\* Manifest::listen_on up to the point where the server serves: the state
\* is frozen, the launch fairings run, the service is created
listen_on(bound) ==
    [manifest |-> [bound EXCEPT !.frozen = TRUE],
     events |-> <<"freeze">> \o handle_launch(bound.fairings) \o <<"serve">>]

\* what the environment does with the configured address
AddressOutcomes == {"bound", "unresolved", "in use"}

\* Rocket::launch; io is what resolving and binding the address come to
launch(rocket, io) ==
    LET done == Actualized(rocket)
        failed == prelaunch_check(done.manifest)
        serving == listen_on(done.manifest)
    IN IF done.panic # None
       THEN [rocket |-> done, result |-> None, events |-> <<>>]
       ELSE IF failed # None
       THEN [rocket |-> done, result |-> failed,
             events |-> <<"actualize", "prelaunch_check">>]
       ELSE IF io = "unresolved"
       THEN [rocket |-> done, result |-> "Io",
             events |-> <<"actualize", "prelaunch_check">>]
       ELSE IF io = "in use"
       THEN [rocket |-> done, result |-> "Bind",
             events |-> <<"actualize", "prelaunch_check">>]
       ELSE [rocket |-> [done EXCEPT !.manifest = serving.manifest],
             result |-> "Ok",
             events |-> <<"actualize", "prelaunch_check", "bind">> \o serving.events]

(***************************************************************************)
(* State.                                                                  *)
(***************************************************************************)
VARIABLES
    \* struct Rocket
    manifest,           \* Option<Manifest>: a manifest record, or NoManifest
    pending,            \* Vec<BuildOperation>
    \* the build of that Rocket
    panic,              \* None, or the message of the panic that ended it
    applied,            \* log: the operations applied so far, in order
    last_call,          \* log: the last method called on the Rocket
    queued,             \* log: the operations the build calls queued, in order
    launched,           \* None, or what Rocket::launch came to
    events,             \* log: the steps of the launch and the requests served
    found,              \* log: the last lookup of managed state
    \* the request of one dispatch (struct Request, Data)
    method,             \* Request::method
    is_form,            \* the content type is a form
    uri,                \* Request::uri
    route,              \* the matched-route slot
    cookies,            \* the delta of the request's cookie jar
    data,               \* the Data moving through the routing loop
    peek,               \* Data::peek
    \* the locals of dispatch, route_and_process, route and handle_error
    pc,                 \* where the dispatch stands
    fairing,            \* index of the next fairing of a handle_* pass
    was_head_request,
    matches,            \* the candidates route() has still to try
    outcome,            \* the Outcome of route()
    status,             \* the status handle_error was called with
    catcher,            \* the catcher handle_error selected
    response,
    frames,             \* calls of route_and_process waiting for the retry
    \* logs of one dispatch
    arrival,            \* the request as it arrived
    phases,             \* the phase of every step of dispatch, in order
    handled,            \* handler invocations: pass, route, data, outcome
    caught,             \* the catchers handle_error invoked, in order
    passes,             \* how many times route() was entered
    given,              \* the data the current call of route() was given
    producer,           \* the route or catcher the response came from
    unstripped,         \* the response before the body stripping step
    returned,           \* the responses dispatch returned
    \* one call of write_response
    hyp_res,            \* the hyper::Response sent, or NoHyperResponse
    chunk_size,         \* the chunk size of the body stream
    stream,             \* how many bytes the body stream still holds
    sent,               \* log: the sizes of the chunks sent, in order
    write_result,       \* None, or what write_response returned
    produced,           \* log: the chunks the body stream produced, in order
    logged,             \* None, or what issue_response logged
    \* the server of listen_on and the tasks of its requests
    hyper_server,       \* "listen_on", "serving", "draining" or "completed"
    shutdown_receiver,  \* Manifest.shutdown_receiver: "Some" or "None"
    shutdown_channel,   \* messages in the shutdown channel (capacity 1)
    ctrl_c,             \* the task that listens for the interrupt
    warnings,           \* log: the warnings logged
    tasks,              \* the tasks hyper_service_fn spawned, by arrival
    completed           \* log: the tasks that have responded, in that order

rocket_vars ==
    <<manifest, pending, panic, applied, last_call, queued, launched, events, found>>
request_vars == <<method, is_form, uri, route, cookies, data, peek>>
local_vars ==
    <<pc, fairing, was_head_request, matches, outcome, status, catcher, response, frames>>
log_vars ==
    <<arrival, phases, handled, caught, passes, given, producer, unstripped, returned>>
dispatch_vars == <<request_vars, local_vars, log_vars>>
write_vars == <<hyp_res, chunk_size, stream, sent, write_result, produced, logged>>
serve_vars ==
    <<hyper_server, shutdown_receiver, shutdown_channel, ctrl_c, warnings, tasks, completed>>
vars == <<rocket_vars, dispatch_vars, write_vars, serve_vars>>

\* write_response is not running
NoWrite ==
    /\ hyp_res = NoHyperResponse /\ chunk_size = 0 /\ stream = 0
    /\ sent = <<>> /\ write_result = None /\ produced = <<>> /\ logged = None

\* no server: listen_on was not called
NoServe ==
    /\ hyper_server = None /\ shutdown_receiver = "Some" /\ shutdown_channel = 0
    /\ ctrl_c = None /\ warnings = <<>> /\ tasks = <<>> /\ completed = <<>>

NoLookup == [type |-> None, value |-> None, by |-> None]

\* no request is being dispatched
NoDispatch ==
    /\ method = "GET" /\ is_form = FALSE /\ uri = <<>> /\ route = NoRoute
    /\ cookies = {} /\ data = "d0" /\ peek = <<>>
    /\ pc = "idle" /\ fairing = 0 /\ was_head_request = FALSE
    /\ matches = <<>> /\ outcome = NoOutcome /\ status = 0 /\ catcher = NoCatcher
    /\ response = NoResponse /\ frames = 0
    /\ arrival = NoRequest /\ phases = <<>> /\ handled = <<>> /\ caught = <<>>
    /\ passes = 0 /\ given = "d0" /\ producer = NoRoute /\ unstripped = NoResponse
    /\ returned = <<>>

(***************************************************************************)
(* BuildSpec: the calls made on one Rocket before launch.                  *)
(***************************************************************************)
HelloBase == <<"hello">>
HiBase == <<"hi">>

WorldRoute == NewRoute("GET", <<"world">>, 1)
BadRoute == NewRoute("GET", BadPath, 1)
RouteLists == {<<WorldRoute>>, <<WorldRoute, BadRoute>>}

CatcherLists ==
    {<<NewCatcher(404, "user_a")>>,
     <<NewCatcher(500, "user_b"), NewCatcher(599, "user_c")>>}

ManagedTypes == {"T1", "T2"}
ManagedValues == {"v1", "v2"}

PlainFairing == NewFairing("plain", FALSE, <<>>, TRUE)
MountFairing ==
    NewFairing("mounter", TRUE, <<OpMount(HiBase, <<WorldRoute>>)>>, TRUE)
NestFairing ==
    NewFairing("nester", TRUE,
               <<OpAttach(MountFairing), OpManage("T1", "v2")>>, FALSE)
BuildFairings == {PlainFairing, MountFairing, NestFairing}

BuildInit ==
    /\ manifest = ConfiguredManifest
    /\ pending = <<>>
    /\ panic = None
    /\ applied = <<>>
    /\ last_call = "ignite"
    /\ queued = <<>>
    /\ launched = None
    /\ events = <<>>
    /\ found = NoLookup
    /\ NoDispatch
    /\ NoWrite
    /\ NoServe

\* the Rocket is there to be called: no call has panicked, and launch,
\* which takes the Rocket, was not called
CanCall == panic = None /\ manifest # NoManifest /\ launched = None

\* Vec::push on the pending queue
Push(op) == Append(pending, op)

\* the mount points passed to mount
MountPoints == {"/hello", "/hi", "/hi?q", "hi"}

\* Origin::parse_owned on a mount point
ParseOrigin(base) ==
    CASE base = "/hello" -> [ok |-> TRUE, path |-> HelloBase, query |-> None]
      [] base = "/hi" -> [ok |-> TRUE, path |-> HiBase, query |-> None]
      [] base = "/hi?q" -> [ok |-> TRUE, path |-> HiBase, query |-> "q"]
      [] OTHER -> [ok |-> FALSE, path |-> <<>>, query |-> None]

\* Rocket::mount
Mount ==
    /\ CanCall
    /\ Len(queued) < MaxOps
    /\ \E base \in MountPoints, routes \in RouteLists :
          LET base_uri == ParseOrigin(base)
          IN IF ~base_uri.ok
             THEN /\ panic' = "Error: invalid origin URI"
                  /\ UNCHANGED <<pending, queued>>
             ELSE IF base_uri.query # None
             THEN /\ panic' = "Invalid mount point."
                  /\ UNCHANGED <<pending, queued>>
             ELSE /\ pending' = Push(OpMount(base_uri.path, routes))
                  /\ queued' = Append(queued, OpMount(base_uri.path, routes))
                  /\ panic' = panic
    /\ last_call' = "mount"
    /\ UNCHANGED <<manifest, applied, launched, events, found, dispatch_vars, write_vars, serve_vars>>

\* Rocket::register
Register ==
    /\ CanCall
    /\ Len(queued) < MaxOps
    /\ \E cs \in CatcherLists :
          /\ pending' = Push(OpRegister(cs))
          /\ queued' = Append(queued, OpRegister(cs))
    /\ last_call' = "register"
    /\ UNCHANGED <<manifest, panic, applied, launched, events, found, dispatch_vars, write_vars, serve_vars>>

\* Rocket::manage
Manage ==
    /\ CanCall
    /\ Len(queued) < MaxOps
    /\ \E type \in ManagedTypes, value \in ManagedValues :
          /\ pending' = Push(OpManage(type, value))
          /\ queued' = Append(queued, OpManage(type, value))
    /\ last_call' = "manage"
    /\ UNCHANGED <<manifest, panic, applied, launched, events, found, dispatch_vars, write_vars, serve_vars>>

\* Fault: attach runs the fairing during the call instead of queueing it.
AttachNow ==
    /\ CanCall
    /\ Len(queued) < MaxOps
    /\ \E f \in BuildFairings :
          LET done == ApplyOperation(NewRocket(manifest, <<>>, applied), OpAttach(f))
          IN /\ manifest' = done.manifest
             /\ applied' = done.applied
             /\ panic' = done.panic
             /\ queued' = Append(queued, OpAttach(f))
    /\ last_call' = "attach"
    /\ UNCHANGED <<pending, launched, events, found, dispatch_vars, write_vars, serve_vars>>

\* Rocket::attach
Attach ==
    /\ CanCall
    /\ Len(queued) < MaxOps
    /\ \E f \in BuildFairings :
          /\ pending' = Push(OpAttach(f))
          /\ queued' = Append(queued, OpAttach(f))
    /\ last_call' = "attach"
    /\ UNCHANGED <<manifest, panic, applied, launched, events, found, dispatch_vars, write_vars, serve_vars>>

\* the struct Rocket the calls act on
ThisRocket ==
    [manifest |-> manifest, pending |-> pending, panic |-> panic, applied |-> applied]

\* Rocket::inspect (and state, config, which call it)
Inspect ==
    /\ CanCall
    /\ LET done == Actualized(ThisRocket)
       IN /\ manifest' = done.manifest
          /\ pending' = done.pending
          /\ panic' = done.panic
          /\ applied' = done.applied
    /\ last_call' = IF last_call \in {"inspect", "inspect again"}
                    THEN "inspect again" ELSE "inspect"
    /\ UNCHANGED <<queued, launched, events, found, dispatch_vars, write_vars, serve_vars>>

\* the types looked up: the managed ones and one that is never managed
LookupTypes == ManagedTypes \cup {"T3"}

\* Rocket::state
State ==
    /\ CanCall
    /\ \E type \in LookupTypes :
          LET done == Actualized(ThisRocket)
          IN /\ manifest' = done.manifest
             /\ pending' = done.pending
             /\ panic' = done.panic
             /\ applied' = done.applied
             /\ found' = IF done.panic # None THEN found
                         ELSE [type |-> type, value |-> ManifestState(done.manifest, type),
                               by |-> "state"]
    /\ last_call' = "state"
    /\ UNCHANGED <<queued, launched, events, dispatch_vars, write_vars, serve_vars>>

\* Rocket::launch, until the server serves or launch returns an error
Launch ==
    /\ CanCall
    /\ \E io \in AddressOutcomes :
          LET done == launch(ThisRocket, io)
          IN /\ manifest' = done.rocket.manifest
             /\ pending' = done.rocket.pending
             /\ panic' = done.rocket.panic
             /\ applied' = done.rocket.applied
             /\ launched' = done.result
             /\ events' = done.events
    /\ last_call' = "launch"
    /\ UNCHANGED <<queued, found, dispatch_vars, write_vars, serve_vars>>

\* the server serves a request (hyper_service_fn), whose handler looks up
\* managed state in the manifest
Request ==
    /\ launched = "Ok"
    /\ Len(SelectSeq(events, LAMBDA e : e = "request")) < MaxRequests
    /\ events' = Append(events, "request")
    /\ \E type \in LookupTypes :
          found' = [type |-> type, value |-> ManifestState(manifest, type),
                    by |-> "request"]
    /\ UNCHANGED <<manifest, pending, panic, applied, last_call, queued, launched,
                   dispatch_vars, write_vars, serve_vars>>

BuildNext ==
    Mount \/ Register \/ Manage \/ Attach \/ Inspect \/ State \/ Launch \/ Request

BuildSpec == BuildInit /\ [][BuildNext]_vars

(***************************************************************************)
(* DispatchSpec: one call of Manifest::dispatch.  The manifest is one that *)
(* a launch can produce; the request and its body are the inputs.          *)
(***************************************************************************)
RequestPath == <<"r">>

\* every route of the tables is mounted at "/" and matches the request path
RouteKinds == {SetUri(NewRoute(m, RequestPath, r), <<>>) : m \in RouteMethods, r \in Ranks}

SeqsUpTo(S, n) == UNION {[1..k -> S] : k \in 0..n}

\* the order the routes of a table were added in: higher ranks first, so
\* that the order of a table is never the order of precedence
AddedBefore(a, b) ==
    \/ a.rank > b.rank
    \/ a.rank = b.rank /\ a.method = "GET" /\ b.method = "HEAD"

\* the tables of at most MaxRoutes routes that pass the collision check
RouteTables ==
    {t \in SeqsUpTo(RouteKinds, MaxRoutes) :
        /\ \A i, j \in 1..Len(t) : i < j => AddedBefore(t[i], t[j])
        /\ ~RouterCollides(t)}

\* the catcher tables register can build: the defaults, shadowed or
\* extended by user catchers
UserCodes == {500, 599}

CatcherTables ==
    {[c \in DefaultCodes \cup user |->
        IF c \in user THEN NewCatcher(c, "user") ELSE DefaultCatchers[c]] :
     user \in SUBSET UserCodes}

\* the request and response fairings of a dispatch, named after what their
\* callbacks do: on_request rewrites the method ("rewrite_get",
\* "rewrite_head") or adds a cookie ("cookie_body"), on_response replaces
\* the body ("cookie_body") or removes the cookie headers ("uncookie")
DispatchFairings == {"rewrite_get", "rewrite_head", "cookie_body", "uncookie"}

FairingLists == SeqsUpTo(DispatchFairings, MaxFairings)

\* Fault: the hook is handed a copy of the request.
OnRequestMethodKept(name, m) == m

\* Fairing::on_request of a fairing, on the method and on the cookie jar
OnRequestMethod(name, m) ==
    CASE name = "rewrite_get" -> "GET"
      [] name = "rewrite_head" -> "HEAD"
      [] OTHER -> m

OnRequestCookies(name, delta) ==
    IF name = "cookie_body" THEN delta \cup {"fairing"} ELSE delta

\* Fairing::on_response of a fairing
OnResponse(name, r) ==
    CASE name = "cookie_body" -> [r EXCEPT !.body = SizedBody(7)]
      [] name = "uncookie" -> [r EXCEPT !.set_cookie = NoCookies]
      [] OTHER -> r

DispatchManifests ==
    {[ConfiguredManifest EXCEPT
        !.router = t, !.catchers = cs, !.fairings.all = fs, !.frozen = TRUE] :
     t \in RouteTables, cs \in CatcherTables, fs \in FairingLists}

MethodHeadField == <<"_", "m", "e", "t", "h", "o", "d", "=", "h", "e", "a", "d">>

\* the requests dispatched: method, form content type, peeked body prefix
RequestInputs ==
    {[arrived |-> TRUE, method |-> m, is_form |-> f, peek |-> p] :
        m \in {"GET", "HEAD"}, f \in {FALSE}, p \in {<<>>}}
    \cup
    {[arrived |-> TRUE, method |-> "POST", is_form |-> f, peek |-> p] :
        f \in BOOLEAN, p \in {MethodHeadField}}

\* what a handler may return (handler::Outcome)
Success(r) == [kind |-> "Success", response |-> r]
Failure(st) == [kind |-> "Failure", status |-> st]
Forward(d) == [kind |-> "Forward", data |-> d]

HandlerResponses ==
    {NewResponse(200, None, SizedBody(5)),
     NewResponse(200, "Custom", ChunkedBody(9))}

\* the statuses a handler fails with: one with a default catcher, one without
FailureCodes == {500, 599}

HandlerOutcomes ==
    {Success(r) : r \in HandlerResponses}
    \cup {Failure(st) : st \in FailureCodes}
    \cup {Forward(d) : d \in DataValues}

\* what a default catcher returns: it always responds
DefaultCatcherResults == {"Ok"}

\* what a catcher returns: a user catcher may fail with a status
CatcherResults(c) == IF c.is_default THEN DefaultCatcherResults ELSE {"Ok", "Err"}

CatcherResponse(c) == NewResponse(c.code, None, SizedBody(3))

DispatchInit ==
    /\ manifest \in DispatchManifests
    /\ pending = <<>>
    /\ panic = None
    /\ applied = <<>>
    /\ last_call = "launch"
    /\ queued = <<>>
    /\ launched = "Ok"
    /\ events = <<"actualize", "prelaunch_check", "bind", "freeze", "serve", "request">>
    /\ found = NoLookup
    /\ arrival \in RequestInputs
    /\ method = arrival.method
    /\ is_form = arrival.is_form
    /\ peek = arrival.peek
    /\ uri = RequestPath
    /\ route = NoRoute
    /\ cookies = {}
    /\ data = "d0"
    /\ pc = "dispatch"
    /\ fairing = 0
    /\ was_head_request = FALSE
    /\ matches = <<>>
    /\ outcome = NoOutcome
    /\ status = 0
    /\ catcher = NoCatcher
    /\ response = NoResponse
    /\ frames = 0
    /\ phases = <<>>
    /\ handled = <<>>
    /\ caught = <<>>
    /\ passes = 0
    /\ given = "d0"
    /\ producer = NoRoute
    /\ unstripped = NoResponse
    /\ returned = <<>>
    /\ NoWrite
    /\ NoServe

Fairings == manifest.fairings.all

\* dispatch: self.preprocess_request(request, &data)
Preprocess ==
    /\ pc = "dispatch"
    /\ method' = PreprocessMethod(method, is_form, peek)
    /\ fairing' = 1
    /\ pc' = "handle_request"
    /\ phases' = Append(phases, "preprocess")
    /\ UNCHANGED <<rocket_vars, serve_vars, write_vars, is_form, uri, route, cookies, data, peek,
                   was_head_request, matches, outcome, status, catcher, response, frames,
                   arrival, handled, caught, passes, given, producer, unstripped, returned>>

\* dispatch: self.fairings.handle_request(request, &data), one callback
RequestFairing ==
    /\ pc = "handle_request"
    /\ fairing <= Len(Fairings)
    /\ method' = OnRequestMethod(Fairings[fairing], method)
    /\ cookies' = OnRequestCookies(Fairings[fairing], cookies)
    /\ fairing' = fairing + 1
    /\ phases' = Append(phases, "on_request")
    /\ UNCHANGED <<rocket_vars, serve_vars, write_vars, is_form, uri, route, data, peek,
                   pc, was_head_request, matches, outcome, status, catcher, response, frames,
                   arrival, handled, caught, passes, given, producer, unstripped, returned>>

\* Fault: routing starts while on_request callbacks are still to run.
RememberHeadEarly ==
    /\ pc = "handle_request"
    /\ was_head_request' = (method = "HEAD")
    /\ pc' = "route_and_process"
    /\ phases' = Append(phases, "was_head_request")
    /\ UNCHANGED <<rocket_vars, serve_vars, write_vars, request_vars, fairing, matches, outcome, status, catcher,
                   response, frames,
                   arrival, handled, caught, passes, given, producer, unstripped, returned>>

\* dispatch: let was_head_request = request.method() == Method::Head
RememberHead ==
    /\ pc = "handle_request"
    /\ fairing > Len(Fairings)
    /\ was_head_request' = (method = "HEAD")
    /\ pc' = "route_and_process"
    /\ phases' = Append(phases, "was_head_request")
    /\ UNCHANGED <<rocket_vars, serve_vars, write_vars, request_vars, fairing, matches, outcome, status, catcher,
                   response, frames,
                   arrival, handled, caught, passes, given, producer, unstripped, returned>>

\* route: let matches = self.router.route(request)
Route ==
    /\ pc = "route_and_process"
    /\ matches' = RouterRoute(manifest.router, method, uri)
    /\ passes' = passes + 1
    /\ given' = data
    /\ pc' = "route"
    /\ phases' = Append(phases, "routing")
    /\ UNCHANGED <<rocket_vars, serve_vars, write_vars, request_vars, fairing, was_head_request, outcome, status,
                   catcher, response, frames,
                   arrival, handled, caught, producer, unstripped, returned>>

\* Fault: the forwarded data is dropped and a fresh Data is passed on.
FreshData(forwarded) == "d0"

\* the data the next candidate is given after a candidate forwarded
ForwardedData(forwarded) == forwarded

\* Fault: the loop does not move on to the next candidate.
SameMatches(ms) == ms

\* the candidates left after the first one forwarded
RemainingMatches(ms) == Tail(ms)

\* route: one turn of the loop over the matches
Handle ==
    /\ pc = "route"
    /\ matches # <<>>
    /\ route' = Head(matches)
    /\ \E out \in HandlerOutcomes, adds_cookie \in BOOLEAN :
          /\ cookies' = IF adds_cookie THEN cookies \cup {"handler"} ELSE cookies
          /\ handled' = Append(handled,
                [pass |-> passes, route |-> Head(matches), bound |-> route',
                 method |-> method, data |-> data, outcome |-> out,
                 adds_cookie |-> adds_cookie])
          /\ IF out.kind = "Forward"
             THEN /\ data' = ForwardedData(out.data)
                  /\ matches' = RemainingMatches(matches)
                  /\ UNCHANGED <<outcome, pc>>
             ELSE /\ outcome' = out
                  /\ pc' = "routed"
                  /\ UNCHANGED <<data, matches>>
    /\ phases' = Append(phases, "routing")
    /\ UNCHANGED <<rocket_vars, serve_vars, write_vars, method, is_form, uri, peek,
                   fairing, was_head_request, status, catcher, response, frames,
                   arrival, caught, passes, given, producer, unstripped, returned>>

\* route: no candidate is left, Outcome::Forward(data)
NoMatch ==
    /\ pc = "route"
    /\ matches = <<>>
    /\ outcome' = Forward(data)
    /\ pc' = "routed"
    /\ phases' = Append(phases, "routing")
    /\ UNCHANGED <<rocket_vars, serve_vars, write_vars, request_vars, fairing, was_head_request, matches, status,
                   catcher, response, frames,
                   arrival, handled, caught, passes, given, producer, unstripped, returned>>

\* route_and_process: Outcome::Success(response) => response
Respond ==
    /\ pc = "routed"
    /\ outcome.kind = "Success"
    /\ response' = outcome.response
    /\ producer' = route
    /\ pc' = "set_cookies"
    /\ phases' = Append(phases, "routing")
    /\ UNCHANGED <<rocket_vars, serve_vars, write_vars, request_vars, fairing, was_head_request, matches, outcome,
                   status, catcher, frames,
                   arrival, handled, caught, passes, given, unstripped, returned>>

\* Fault: the retry leaves the method as it is.
RetryMethodUnchanged == "HEAD"

\* the method route_and_process retries a forwarded HEAD request with
RetryMethod == "GET"

\* Fault: the retry starts with an empty cookie delta.
AutohandleReset ==
    /\ pc = "routed"
    /\ outcome.kind = "Forward"
    /\ method = "HEAD"
    /\ method' = RetryMethod
    /\ cookies' = {}
    /\ data' = outcome.data
    /\ frames' = frames + 1
    /\ pc' = "route_and_process"
    /\ phases' = Append(phases, "routing")
    /\ UNCHANGED <<rocket_vars, serve_vars, write_vars, is_form, uri, route, peek,
                   fairing, was_head_request, matches, outcome, status, catcher, response,
                   arrival, handled, caught, passes, given, producer, unstripped, returned>>

\* route_and_process: a HEAD request that was forwarded is routed again as GET
Autohandle ==
    /\ pc = "routed"
    /\ outcome.kind = "Forward"
    /\ method = "HEAD"
    /\ method' = RetryMethod
    /\ data' = outcome.data
    /\ frames' = frames + 1
    /\ pc' = "route_and_process"
    /\ phases' = Append(phases, "routing")
    /\ UNCHANGED <<rocket_vars, serve_vars, write_vars, is_form, uri, route, cookies, peek,
                   fairing, was_head_request, matches, outcome, status, catcher, response,
                   arrival, handled, caught, passes, given, producer, unstripped, returned>>

\* route_and_process: a forward that is not autohandled is a 404
NoRouteFound ==
    /\ pc = "routed"
    /\ outcome.kind = "Forward"
    /\ method # "HEAD"
    /\ status' = NotFound.code
    /\ pc' = "handle_error"
    /\ phases' = Append(phases, "routing")
    /\ UNCHANGED <<rocket_vars, serve_vars, write_vars, request_vars, fairing, was_head_request, matches, outcome,
                   catcher, response, frames,
                   arrival, handled, caught, passes, given, producer, unstripped, returned>>

\* route_and_process: Outcome::Failure(status) => self.handle_error(status, request)
Fail ==
    /\ pc = "routed"
    /\ outcome.kind = "Failure"
    /\ status' = outcome.status
    /\ pc' = "handle_error"
    /\ phases' = Append(phases, "routing")
    /\ UNCHANGED <<rocket_vars, serve_vars, write_vars, request_vars, fairing, was_head_request, matches, outcome,
                   catcher, response, frames,
                   arrival, handled, caught, passes, given, producer, unstripped, returned>>

\* Fault: the delta is not reset before the catcher runs.
KeptDelta(delta) == delta

\* handle_error: req.cookies().reset_delta()
ResetDelta(delta) == {}

\* Fault: a status without a catcher finds none.
SelectCatcherExact(m, st) ==
    IF st \in DOMAIN m.catchers THEN m.catchers[st] ELSE NoCatcher

\* handle_error: the active catcher of the status, else the active 500 catcher
SelectCatcher(m, st) ==
    IF st \in DOMAIN m.catchers THEN m.catchers[st]
    ELSE m.catchers[InternalServerError.code]

\* Fault: a failed catcher falls back to the active 500 catcher.
ActiveFallbackCatcher(m) == m.catchers[InternalServerError.code]

\* handle_error: the catcher used when the selected one failed
FallbackCatcher(m) == m.default_catchers[InternalServerError.code]

\* where handle_error returns to: route_and_process, which goes on to set
\* the cookies, or hyper_service_fn, which called it without a dispatch
\* (route was never entered) and issues the response
ReturnFromHandleError == IF passes = 0 THEN "write_response" ELSE "set_cookies"

\* handle_error, up to the choice of the catcher
HandleError ==
    /\ pc = "handle_error"
    /\ cookies' = ResetDelta(cookies)
    /\ catcher' = SelectCatcher(manifest, status)
    /\ caught' = <<>>
    /\ pc' = "catch"
    /\ phases' = Append(phases, "routing")
    /\ UNCHANGED <<rocket_vars, serve_vars, write_vars, method, is_form, uri, route, data, peek,
                   fairing, was_head_request, matches, outcome, status, response, frames,
                   arrival, handled, passes, given, producer, unstripped, returned>>

\* handle_error: catcher.handle(req).await
Catch ==
    /\ pc = "catch"
    /\ catcher # NoCatcher
    /\ caught' = Append(caught, catcher)
    /\ \E result \in CatcherResults(catcher), adds_cookie \in BOOLEAN :
          /\ cookies' = IF adds_cookie /\ ~catcher.is_default
                        THEN cookies \cup {"catcher"} ELSE cookies
          /\ IF result = "Ok"
             THEN /\ response' = CatcherResponse(catcher)
                  /\ producer' = catcher
                  /\ pc' = ReturnFromHandleError
             ELSE /\ pc' = "default_500"
                  /\ UNCHANGED <<response, producer>>
    /\ phases' = Append(phases, "routing")
    /\ UNCHANGED <<rocket_vars, serve_vars, write_vars, method, is_form, uri, route, data, peek,
                   fairing, was_head_request, matches, outcome, status, catcher, frames,
                   arrival, handled, passes, given, unstripped, returned>>

\* handle_error: default.handle(req).await.expect("Default 500 response.")
Default500 ==
    /\ pc = "default_500"
    /\ caught' = Append(caught, FallbackCatcher(manifest))
    /\ response' = CatcherResponse(FallbackCatcher(manifest))
    /\ producer' = FallbackCatcher(manifest)
    /\ pc' = ReturnFromHandleError
    /\ phases' = Append(phases, "routing")
    /\ UNCHANGED <<rocket_vars, serve_vars, write_vars, request_vars,
                   fairing, was_head_request, matches, outcome, status, catcher, frames,
                   arrival, handled, passes, given, unstripped, returned>>

\* route_and_process: for cookie in request.cookies().delta()
SetCookies ==
    /\ pc = "set_cookies"
    /\ response' = AdjoinAll(response, cookies)
    /\ pc' = "processed"
    /\ phases' = Append(phases, "routing")
    /\ UNCHANGED <<rocket_vars, serve_vars, write_vars, request_vars,
                   fairing, was_head_request, matches, outcome, status, catcher, frames,
                   arrival, handled, caught, passes, given, producer, unstripped, returned>>

\* Fault: the pass that retried goes on to set the cookies on what the retry
\* returned.
ReturnThenSet ==
    /\ pc = "processed"
    /\ frames > 0
    /\ frames' = frames - 1
    /\ pc' = "set_cookies"
    /\ phases' = Append(phases, "routing")
    /\ UNCHANGED <<rocket_vars, serve_vars, write_vars, request_vars,
                   fairing, was_head_request, matches, outcome, status, catcher, response,
                   arrival, handled, caught, passes, given, producer, unstripped, returned>>

\* route_and_process: return try_next.await
ReturnEarly ==
    /\ pc = "processed"
    /\ frames > 0
    /\ frames' = frames - 1
    /\ phases' = Append(phases, "routing")
    /\ UNCHANGED <<rocket_vars, serve_vars, write_vars, request_vars,
                   pc, fairing, was_head_request, matches, outcome, status, catcher, response,
                   arrival, handled, caught, passes, given, producer, unstripped, returned>>

\* dispatch: the default 'Server' header
WithServerHeader(r) ==
    IF r.server = None THEN [r EXCEPT !.server = "Rocket"] ELSE r

ServerHeader ==
    /\ pc = "processed"
    /\ frames = 0
    /\ response' = WithServerHeader(response)
    /\ fairing' = 1
    /\ pc' = "handle_response"
    /\ phases' = Append(phases, "server_header")
    /\ UNCHANGED <<rocket_vars, serve_vars, write_vars, request_vars,
                   was_head_request, matches, outcome, status, catcher, frames,
                   arrival, handled, caught, passes, given, producer, unstripped, returned>>

\* dispatch: self.fairings.handle_response(request, &mut response), one callback
ResponseFairing ==
    /\ pc = "handle_response"
    /\ fairing <= Len(Fairings)
    /\ response' = OnResponse(Fairings[fairing], response)
    /\ fairing' = fairing + 1
    /\ phases' = Append(phases, "on_response")
    /\ UNCHANGED <<rocket_vars, serve_vars, write_vars, request_vars,
                   pc, was_head_request, matches, outcome, status, catcher, frames,
                   arrival, handled, caught, passes, given, producer, unstripped, returned>>

\* Fault: the body of a HEAD response is left in place.
NotStripped(was_head, r) == r

\* dispatch: if was_head_request { response.strip_body() }
Stripped(was_head, r) == IF was_head THEN StripBody(r) ELSE r

\* Fault: the body is stripped when the request's method is HEAD at the end.
StripByMethod ==
    /\ pc = "handle_response"
    /\ fairing > Len(Fairings)
    /\ unstripped' = response
    /\ response' = Stripped(method = "HEAD", response)
    /\ pc' = "return"
    /\ phases' = Append(phases, "strip_body")
    /\ UNCHANGED <<rocket_vars, serve_vars, write_vars, request_vars,
                   fairing, was_head_request, matches, outcome, status, catcher, frames,
                   arrival, handled, caught, passes, given, producer, returned>>

Strip ==
    /\ pc = "handle_response"
    /\ fairing > Len(Fairings)
    /\ unstripped' = response
    /\ response' = Stripped(was_head_request, response)
    /\ pc' = "return"
    /\ phases' = Append(phases, "strip_body")
    /\ UNCHANGED <<rocket_vars, serve_vars, write_vars, request_vars,
                   fairing, was_head_request, matches, outcome, status, catcher, frames,
                   arrival, handled, caught, passes, given, producer, returned>>

\* dispatch: the response is returned
Return ==
    /\ pc = "return"
    /\ returned' = Append(returned, response)
    /\ pc' = "done"
    /\ phases' = Append(phases, "return")
    /\ UNCHANGED <<rocket_vars, serve_vars, write_vars, request_vars,
                   fairing, was_head_request, matches, outcome, status, catcher, response,
                   frames, arrival, handled, caught, passes, given, producer, unstripped>>

DispatchNext ==
    \/ Preprocess \/ RequestFairing \/ RememberHead
    \/ Route \/ Handle \/ NoMatch
    \/ Respond \/ Autohandle \/ NoRouteFound \/ Fail
    \/ HandleError \/ Catch \/ Default500
    \/ SetCookies \/ ReturnEarly
    \/ ServerHeader \/ ResponseFairing \/ Strip \/ Return

DispatchSpec == DispatchInit /\ [][DispatchNext]_vars

(***************************************************************************)
(* PreprocessSpec: preprocess_request on its own, on requests of every     *)
(* method with and without a form content type.                            *)
(***************************************************************************)
\* peeked body prefixes: short, exact, upper case, longer than 14 bytes, the
\* field cut off at or lying beyond byte 14, the field second, without a
\* value, with a value that is no method, another key, and bytes that are
\* not UTF-8 inside and outside the first 14
PeekEmpty == <<>>
PeekShort == <<"_", "m", "e", "t", "h", "o", "d", "=", "g", "e">>
PeekGet == <<"_", "m", "e", "t", "h", "o", "d", "=", "g", "e", "t">>
PeekPost == <<"_", "m", "e", "t", "h", "o", "d", "=", "p", "o", "s", "t">>
PeekUpper == <<"_", "m", "e", "t", "h", "o", "d", "=", "D", "E", "L", "E", "T", "E">>
PeekLong == <<"_", "m", "e", "t", "h", "o", "d", "=", "d", "e", "l", "e", "t", "e", "&", "a", "=", "b">>
PeekCutOff == <<"_", "m", "e", "t", "h", "o", "d", "=", "o", "p", "t", "i", "o", "n", "s">>
PeekBeyond == <<"a", "=", "1", "&", "_", "m", "e", "t", "h", "o", "d", "=", "g", "e", "t">>
PeekSecond == <<"a", "&", "_", "m", "e", "t", "h", "o", "d", "=", "p", "u", "t">>
PeekNoValue == <<"_", "m", "e", "t", "h", "o", "d", "&", "a", "=", "h", "e", "a", "d">>
PeekBadFirst == <<"_", "m", "e", "t", "h", "o", "d", "=", "b", "a", "d", "&", "_", "m", "e", "t", "h", "o", "d", "=", "g", "e", "t">>
PeekOtherKey == <<"x", "_", "m", "e", "t", "h", "o", "d", "=", "g", "e", "t">>
PeekInvalidInside == <<"_", "m", "e", "t", "h", "o", "d", "=", "g", "e", "t", InvalidByte, "a">>
PeekInvalidOutside == <<"_", "m", "e", "t", "h", "o", "d", "=", "g", "e", "t", "&", "a", "b", InvalidByte>>

Peeks ==
    {PeekEmpty, PeekShort, PeekGet, PeekPost,
     PeekUpper, PeekLong, PeekCutOff, PeekBeyond,
     PeekSecond, PeekNoValue, PeekBadFirst, PeekOtherKey,
     PeekInvalidInside, PeekInvalidOutside}

PreprocessInputs ==
    {[arrived |-> TRUE, method |-> m, is_form |-> f, peek |-> p] :
        m \in {"POST", "GET", "HEAD", "PUT"}, f \in BOOLEAN, p \in Peeks}

PreprocessInit ==
    /\ manifest \in {m \in DispatchManifests : m.fairings.all = <<>>}
    /\ pending = <<>>
    /\ panic = None
    /\ applied = <<>>
    /\ last_call = "launch"
    /\ queued = <<>>
    /\ launched = "Ok"
    /\ events = <<"actualize", "prelaunch_check", "bind", "freeze", "serve", "request">>
    /\ found = NoLookup
    /\ arrival \in PreprocessInputs
    /\ method = arrival.method /\ is_form = arrival.is_form /\ uri = RequestPath
    /\ route = NoRoute /\ cookies = {} /\ data = "d0" /\ peek = arrival.peek
    /\ pc = "dispatch" /\ fairing = 0 /\ was_head_request = FALSE
    /\ matches = <<>> /\ outcome = NoOutcome /\ status = 0 /\ catcher = NoCatcher
    /\ response = NoResponse /\ frames = 0
    /\ phases = <<>> /\ handled = <<>> /\ caught = <<>>
    /\ passes = 0 /\ given = "d0" /\ producer = NoRoute /\ unstripped = NoResponse
    /\ returned = <<>>
    /\ NoWrite
    /\ NoServe

PreprocessNext == Preprocess

PreprocessSpec == PreprocessInit /\ [][PreprocessNext]_vars

(***************************************************************************)
(* ResponseSpec: one call of Manifest::write_response on a response that   *)
(* a dispatch returned.                                                    *)
(***************************************************************************)
\* body lengths around the chunk size of a sized body, and the 25000 bytes
\* of the stream example
BodyLengths == {0, 1, 4096, 4097, 10000, 25000}

\* the chunk sizes of the chunked bodies
ChunkSizes == {1024, DefaultChunkSize, 8192}

\* the bodies written: none, sized (also with its bytes stripped for a HEAD
\* request), chunked with a chunk size of its own
WrittenBodies ==
    {NoBody}
        \cup {SizedBody(n) : n \in BodyLengths}
        \cup {StripBody(NewResponse(200, None, SizedBody(n))).body : n \in BodyLengths}
        \cup {[ChunkedBody(n) EXCEPT !.chunk_size = c] :
                  n \in BodyLengths, c \in ChunkSizes}

WrittenResponses ==
    {r : r \in {NewResponse(code, server, body) :
                    code \in {200, 404}, server \in {None, "Custom"},
                    body \in WrittenBodies}}
        \cup {AdjoinCookie(NewResponse(200, "Custom", body), "handler") :
                  body \in WrittenBodies}

ResponseInit ==
    /\ manifest = [ConfiguredManifest EXCEPT !.frozen = TRUE]
    /\ pending = <<>>
    /\ panic = None
    /\ applied = <<>>
    /\ last_call = "launch"
    /\ queued = <<>>
    /\ launched = "Ok"
    /\ events = <<"actualize", "prelaunch_check", "bind", "freeze", "serve", "request">>
    /\ found = NoLookup
    /\ method = "GET" /\ is_form = FALSE /\ uri = <<>> /\ route = NoRoute
    /\ cookies = {} /\ data = "d0" /\ peek = <<>>
    /\ pc = "write_response" /\ fairing = 0 /\ was_head_request = FALSE
    /\ matches = <<>> /\ outcome = NoOutcome /\ status = 0 /\ catcher = NoCatcher
    /\ response \in WrittenResponses
    /\ frames = 0
    /\ arrival = NoRequest /\ phases = <<>> /\ handled = <<>> /\ caught = <<>>
    /\ passes = 0 /\ given = "d0" /\ producer = NoRoute /\ unstripped = NoResponse
    /\ returned = <<response>>
    /\ NoWrite
    /\ NoServe

\* Fault: a failed send_response is ignored and the body is streamed.
StreamUnsent ==
    /\ pc = "write_response"
    /\ \E client \in {"waiting", "gone"} :
          hyp_res' = IF client = "gone" THEN hyp_res ELSE HyperResponse(response)
    /\ IF response.body.kind = "none"
       THEN /\ write_result' = "Ok"
            /\ pc' = "done"
            /\ UNCHANGED <<chunk_size, stream>>
       ELSE /\ chunk_size' = ChunkSize(response.body)
            /\ stream' = response.body.bytes
            /\ pc' = "stream"
            /\ write_result' = write_result
    /\ UNCHANGED <<rocket_vars, serve_vars, request_vars, fairing, was_head_request, matches,
                   outcome, status, catcher, response, frames, log_vars, sent,
                   produced, logged>>

\* write_response up to send_response: the hyper response is built and sent
\* to the connection, unless the client is gone; a body is then streamed
SendResponse ==
    /\ pc = "write_response"
    /\ \E client \in {"waiting", "gone"} :
          IF client = "gone"
          THEN /\ write_result' = "Err(BrokenPipe)"
               /\ pc' = "done"
               /\ UNCHANGED <<hyp_res, chunk_size, stream>>
          ELSE /\ hyp_res' = HyperResponse(response)
               /\ IF response.body.kind = "none"
                  THEN /\ write_result' = "Ok"
                       /\ pc' = "done"
                       /\ UNCHANGED <<chunk_size, stream>>
                  ELSE /\ chunk_size' = ChunkSize(response.body)
                       /\ stream' = response.body.bytes
                       /\ pc' = "stream"
                       /\ write_result' = write_result
    /\ UNCHANGED <<rocket_vars, serve_vars, request_vars, fairing, was_head_request, matches,
                   outcome, status, catcher, response, frames, log_vars, sent,
                   produced, logged>>

\* Fault: the loop goes on after a chunk could not be sent.
SendDataOn ==
    /\ pc = "stream"
    /\ stream > 0
    /\ \E io \in {"sent", "send error"} :
          /\ produced' = Append(produced, [at |-> response.body.bytes - stream,
                                           size |-> Min(stream, chunk_size)])
          /\ stream' = stream - Min(stream, chunk_size)
          /\ sent' = IF io = "sent" THEN Append(sent, Min(stream, chunk_size)) ELSE sent
    /\ UNCHANGED <<rocket_vars, serve_vars, request_vars, local_vars, log_vars,
                   hyp_res, chunk_size, write_result, logged>>

\* one turn of the loop over the body stream: the stream produces the next
\* chunk, of chunk_size bytes or of what is left, and the chunk is sent; the
\* loop ends with the error when the stream or the sender fails
SendData ==
    /\ pc = "stream"
    /\ stream > 0
    /\ \E io \in {"sent", "read error", "send error"} :
          IF io = "read error"
          THEN /\ write_result' = "Err(Read)"
               /\ pc' = "done"
               /\ UNCHANGED <<stream, sent, produced>>
          ELSE /\ produced' = Append(produced, [at |-> response.body.bytes - stream,
                                                size |-> Min(stream, chunk_size)])
               /\ stream' = stream - Min(stream, chunk_size)
               /\ IF io = "send error"
                  THEN /\ write_result' = "Err(Other)"
                       /\ pc' = "done"
                       /\ sent' = sent
                  ELSE /\ sent' = Append(sent, Min(stream, chunk_size))
                       /\ UNCHANGED <<write_result, pc>>
    /\ UNCHANGED <<rocket_vars, serve_vars, request_vars, fairing, was_head_request, matches,
                   outcome, status, catcher, response, frames, log_vars,
                   hyp_res, chunk_size, logged>>

\* the body stream is exhausted: write_response returns Ok(())
EndOfStream ==
    /\ pc = "stream"
    /\ stream = 0
    /\ write_result' = "Ok"
    /\ pc' = "done"
    /\ UNCHANGED <<rocket_vars, serve_vars, request_vars, fairing, was_head_request, matches,
                   outcome, status, catcher, response, frames, log_vars,
                   hyp_res, chunk_size, stream, sent, produced, logged>>

\* Manifest::issue_response once write_response has returned: the result is
\* logged and the task of the request ends
IssueResponse ==
    /\ pc = "done"
    /\ logged = None
    /\ logged' = IF write_result = "Ok" THEN "Response succeeded."
                  ELSE "Failed to write response"
    /\ UNCHANGED <<rocket_vars, serve_vars, request_vars, local_vars, log_vars,
                   hyp_res, chunk_size, stream, sent, write_result, produced>>

ResponseNext == SendResponse \/ SendData \/ EndOfStream \/ IssueResponse

ResponseSpec == ResponseInit /\ [][ResponseNext]_vars

(***************************************************************************)
(* ServiceSpec: the task hyper_service_fn spawns, for a transport request  *)
(* that Request::from_hyp cannot convert.                                  *)
(***************************************************************************)
BadRequest == [code |-> 400]

\* Origin::dummy()
DummyOrigin == <<>>

\* Request::from_hyp: a method Rocket knows and a URI in origin form
FromHypOk(hyp_req) == hyp_req.method \in AllMethods /\ hyp_req.uri # BadPath

\* the transport requests of ServiceSpec: unknown method, bad URI, or both
HyperRequests ==
    {h \in {[arrived |-> TRUE, method |-> m, is_form |-> FALSE, peek |-> <<>>, uri |-> u] :
                m \in {"HEAD", "BREW"}, u \in {RequestPath, BadPath}} : ~FromHypOk(h)}

\* manifests with and without a user catcher for 400
ServiceManifests ==
    DispatchManifests \cup
    {[m EXCEPT !.catchers = MapInsert(@, BadRequest.code, NewCatcher(BadRequest.code, "user"))] :
        m \in DispatchManifests}

ServiceInit ==
    /\ manifest \in ServiceManifests
    /\ pending = <<>>
    /\ panic = None
    /\ applied = <<>>
    /\ last_call = "launch"
    /\ queued = <<>>
    /\ launched = "Ok"
    /\ events = <<"actualize", "prelaunch_check", "bind", "freeze", "serve", "request">>
    /\ found = NoLookup
    /\ arrival \in HyperRequests
    /\ method = arrival.method /\ is_form = arrival.is_form /\ uri = arrival.uri
    /\ route = NoRoute /\ cookies = {} /\ data = "d0" /\ peek = arrival.peek
    /\ pc = "from_hyp" /\ fairing = 0 /\ was_head_request = FALSE
    /\ matches = <<>> /\ outcome = NoOutcome /\ status = 0 /\ catcher = NoCatcher
    /\ response = NoResponse /\ frames = 0
    /\ phases = <<>> /\ handled = <<>> /\ caught = <<>>
    /\ passes = 0 /\ given = "d0" /\ producer = NoRoute /\ unstripped = NoResponse
    /\ returned = <<>>
    /\ NoWrite
    /\ NoServe

\* Fault: the task of a request that cannot be converted ends at once.
FromHypDrop ==
    /\ pc = "from_hyp"
    /\ pc' = IF FromHypOk(arrival) THEN "dispatch" ELSE "done"
    /\ logged' = IF FromHypOk(arrival) THEN logged ELSE "Bad incoming request"
    /\ UNCHANGED <<rocket_vars, serve_vars, request_vars, fairing, was_head_request, matches,
                   outcome, status, catcher, response, frames, log_vars,
                   hyp_res, chunk_size, stream, sent, write_result, produced>>

\* hyper_service_fn: the request is converted and dispatched, or, when the
\* conversion fails, a GET request for the dummy origin is made up and
\* handle_error is called for 400 Bad Request
FromHyp ==
    /\ pc = "from_hyp"
    /\ IF FromHypOk(arrival)
       THEN /\ pc' = "dispatch"
            /\ UNCHANGED <<method, uri, status>>
       ELSE /\ method' = "GET"
            /\ uri' = DummyOrigin
            /\ status' = BadRequest.code
            /\ pc' = "handle_error"
    /\ UNCHANGED <<rocket_vars, serve_vars, write_vars, is_form, route, cookies, data, peek,
                   fairing, was_head_request, matches, outcome, catcher, response, frames,
                   log_vars>>

ServiceNext ==
    \/ FromHyp
    \/ HandleError \/ Catch \/ Default500
    \/ SendResponse \/ SendData \/ EndOfStream \/ IssueResponse

ServiceSpec == ServiceInit /\ [][ServiceNext]_vars

(***************************************************************************)
(* ServeSpec: the server of listen_on, the tasks hyper_service_fn spawns   *)
(* for its requests over the shared manifest, and the shutdown.            *)
(***************************************************************************)
\* the transport requests served: what the handlers do with a request
\* depends on the request alone (wants); one handler triggers the shutdown
ServeRequests ==
    {[arrived |-> TRUE, method |-> m, is_form |-> FALSE, peek |-> <<>>,
      uri |-> RequestPath, wants |-> w] :
        m \in {"GET", "HEAD"}, w \in {"Success", "Forward", "Failure", "Shutdown"}}
    \cup {[arrived |-> TRUE, method |-> "BREW", is_form |-> FALSE, peek |-> <<>>,
            uri |-> RequestPath, wants |-> "Success"]}

ServeManifests ==
    {m \in DispatchManifests :
        /\ Len(m.router) <= 1
        /\ m.fairings.all \in {<<>>, <<"rewrite_get">>}
        /\ DOMAIN m.catchers = DefaultCodes}

\* whether the ctrl_c_shutdown feature is enabled: the task of launch that
\* listens for the interrupt is spawned or not
CtrlCFeature == {"disabled", "listening"}

ServeInit ==
    /\ manifest \in ServeManifests
    /\ pending = <<>>
    /\ panic = None
    /\ applied = <<>>
    /\ last_call = "launch"
    /\ queued = <<>>
    /\ launched = None
    /\ events = <<"actualize", "prelaunch_check", "bind", "freeze">>
    /\ found = NoLookup
    /\ NoDispatch
    /\ NoWrite
    /\ hyper_server = "listen_on"
    /\ shutdown_receiver = "Some"
    /\ shutdown_channel \in {0, 1}    \* 1: the handle was triggered before launch
    /\ ctrl_c \in CtrlCFeature
    /\ warnings = <<>>
    /\ tasks = <<>>
    /\ completed = <<>>

\* the task of one request, as hyper_service_fn spawns it
NewTask(hyp_req) ==
    [pc |-> "from_hyp", req |-> hyp_req, method |-> hyp_req.method,
     was_head |-> FALSE, dispatched |-> FALSE, status |-> 0, response |-> NoResponse]

\* Fairings::handle_request on the method
RECURSIVE HandleRequest(_, _)
HandleRequest(fairings, m) ==
    IF fairings = <<>> THEN m
    ELSE HandleRequest(Tail(fairings), OnRequestMethod(Head(fairings), m))

\* Fairings::handle_response
RECURSIVE HandleResponse(_, _)
HandleResponse(fairings, r) ==
    IF fairings = <<>> THEN r
    ELSE HandleResponse(Tail(fairings), OnResponse(Head(fairings), r))

\* hyper_service_fn and dispatch up to routing: the conversion, the
\* preprocessing, the on-request hooks, was_head_request; a request that
\* cannot be converted goes to handle_error with 400 as a made-up GET
Converted(m, t) ==
    IF FromHypOk(t.req)
    THEN LET after == HandleRequest(m.fairings.all,
                         PreprocessMethod(t.req.method, t.req.is_form, t.req.peek))
         IN [t EXCEPT !.method = after, !.was_head = (after = "HEAD"),
                      !.dispatched = TRUE, !.pc = "route"]
    ELSE [t EXCEPT !.method = "GET", !.status = BadRequest.code, !.pc = "handle_error"]

\* what the handlers of these specifications return for a request
OwnOutcome(req) ==
    CASE req.wants = "Forward" -> Forward("d0")
      [] req.wants = "Failure" -> Failure(InternalServerError.code)
      [] OTHER -> Success(NewResponse(200, None, SizedBody(5)))

\* one pass of route_and_process over the shared router
Routed(m, t) ==
    LET candidates == RouterRoute(m.router, t.method, t.req.uri)
        out == IF candidates = <<>> THEN Forward("d0") ELSE OwnOutcome(t.req)
    IN CASE out.kind = "Success" -> [t EXCEPT !.response = out.response, !.pc = "respond"]
         [] out.kind = "Failure" -> [t EXCEPT !.status = out.status, !.pc = "handle_error"]
         [] out.kind = "Forward" ->
                IF t.method = "HEAD" THEN [t EXCEPT !.method = RetryMethod]
                ELSE [t EXCEPT !.status = NotFound.code, !.pc = "handle_error"]

\* handle_error over the shared catcher tables; a user catcher fails for
\* the requests whose handlers fail
Caught(m, t) ==
    LET selected == SelectCatcher(m, t.status)
        last == IF "Err" \in CatcherResults(selected) /\ t.req.wants = "Failure"
                THEN FallbackCatcher(m) ELSE selected
    IN [t EXCEPT !.response = CatcherResponse(last), !.pc = "respond"]

\* the rest of dispatch (Server header, on-response hooks, body stripping)
\* and issue_response; the response to a request that was not converted is
\* issued as handle_error returned it
Responded(m, t) ==
    [t EXCEPT
        !.response = IF t.dispatched
                     THEN Stripped(t.was_head,
                                   HandleResponse(m.fairings.all, WithServerHeader(@)))
                     ELSE @,
        !.pc = "done"]

\* the next step of a task
StepTask(m, t) ==
    CASE t.pc = "from_hyp" -> Converted(m, t)
      [] t.pc = "route" -> Routed(m, t)
      [] t.pc = "handle_error" -> Caught(m, t)
      [] t.pc = "respond" -> Responded(m, t)

\* a task run to its end with no other task running
RECURSIVE Alone(_, _)
Alone(m, t) == IF t.pc = "done" THEN t ELSE Alone(m, StepTask(m, t))

\* ShutdownHandle::shutdown: a message is put into the channel unless one
\* is there or the receiver is gone with the server
ShutdownSent == IF hyper_server = "completed" THEN shutdown_channel ELSE 1

\* listen_on: the receiver is taken out of the manifest and the server is
\* started with it as its shutdown signal
Serve ==
    /\ hyper_server = "listen_on"
    /\ IF shutdown_receiver = "Some"
       THEN /\ shutdown_receiver' = "None"
            /\ hyper_server' = "serving"
            /\ events' = Append(events, "serve")
            /\ UNCHANGED panic
       ELSE /\ panic' = "shutdown receiver has already been used"
            /\ hyper_server' = "completed"
            /\ UNCHANGED <<shutdown_receiver, events>>
    /\ UNCHANGED <<manifest, pending, applied, last_call, queued, launched, found,
                   dispatch_vars, write_vars,
                   shutdown_channel, ctrl_c, warnings, tasks, completed>>

\* the server accepts a connection and its request: make_service_fn,
\* service_fn, hyper_service_fn spawning the task
Accept ==
    /\ hyper_server = "serving"
    /\ Len(tasks) < MaxRequests
    /\ \E hyp_req \in ServeRequests : tasks' = Append(tasks, NewTask(hyp_req))
    /\ events' = Append(events, "request")
    /\ UNCHANGED <<manifest, pending, panic, applied, last_call, queued, launched, found,
                   dispatch_vars, write_vars,
                   hyper_server, shutdown_receiver, shutdown_channel, ctrl_c, warnings,
                   completed>>

TaskFromHyp ==
    /\ \E i \in 1..Len(tasks) :
          /\ tasks[i].pc = "from_hyp"
          /\ tasks' = [tasks EXCEPT ![i] = Converted(manifest, @)]
    /\ UNCHANGED <<rocket_vars, dispatch_vars, write_vars,
                   hyper_server, shutdown_receiver, shutdown_channel, ctrl_c, warnings,
                   completed>>

\* Fault: a handler takes its route out of the router.
TaskRouteUnmounting ==
    /\ \E i \in 1..Len(tasks) :
          /\ tasks[i].pc = "route"
          /\ tasks' = [tasks EXCEPT ![i] = Routed(manifest, @)]
          /\ manifest' = IF tasks'[i].pc = "respond"
                         THEN [manifest EXCEPT !.router = <<>>] ELSE manifest
          /\ shutdown_channel' =
                IF tasks'[i].pc = "respond" /\ tasks[i].req.wants = "Shutdown"
                THEN ShutdownSent ELSE shutdown_channel
    /\ UNCHANGED <<pending, panic, applied, last_call, queued, launched, events, found,
                   dispatch_vars, write_vars,
                   hyper_server, shutdown_receiver, ctrl_c, warnings, completed>>

\* the handler of a request that wants the shutdown calls the handle it
\* finds in the managed state
TaskRoute ==
    /\ \E i \in 1..Len(tasks) :
          /\ tasks[i].pc = "route"
          /\ tasks' = [tasks EXCEPT ![i] = Routed(manifest, @)]
          /\ shutdown_channel' =
                IF tasks'[i].pc = "respond" /\ tasks[i].req.wants = "Shutdown"
                THEN ShutdownSent ELSE shutdown_channel
    /\ UNCHANGED <<rocket_vars, dispatch_vars, write_vars,
                   hyper_server, shutdown_receiver, ctrl_c, warnings, completed>>

TaskCatch ==
    /\ \E i \in 1..Len(tasks) :
          /\ tasks[i].pc = "handle_error"
          /\ tasks' = [tasks EXCEPT ![i] = Caught(manifest, @)]
    /\ UNCHANGED <<rocket_vars, dispatch_vars, write_vars,
                   hyper_server, shutdown_receiver, shutdown_channel, ctrl_c, warnings,
                   completed>>

TaskRespond ==
    /\ \E i \in 1..Len(tasks) :
          /\ tasks[i].pc = "respond"
          /\ tasks' = [tasks EXCEPT ![i] = Responded(manifest, @)]
          /\ completed' = Append(completed, i)
    /\ UNCHANGED <<rocket_vars, dispatch_vars, write_vars,
                   hyper_server, shutdown_receiver, shutdown_channel, ctrl_c, warnings>>

\* launch: select(ctrl_c(), cancel receiver) of the spawned task: the
\* interrupt arrives, or listening for it fails, or the server has ended
CtrlC ==
    /\ ctrl_c = "listening"
    /\ \/ /\ hyper_server # "completed"
          /\ shutdown_channel' = ShutdownSent
          /\ ctrl_c' = "interrupted"
          /\ UNCHANGED warnings
       \/ /\ hyper_server # "completed"
          /\ warnings' = Append(warnings, "Not listening for shutdown keybinding.")
          /\ ctrl_c' = "failed"
          /\ UNCHANGED shutdown_channel
       \/ /\ hyper_server = "completed"
          /\ shutdown_channel' = ShutdownSent
          /\ ctrl_c' = "cancelled"
          /\ UNCHANGED warnings
    /\ UNCHANGED <<rocket_vars, dispatch_vars, write_vars,
                   hyper_server, shutdown_receiver, tasks, completed>>

\* with_graceful_shutdown: shutdown_receiver.recv() yields the message
Drain ==
    /\ hyper_server = "serving"
    /\ shutdown_channel > 0
    /\ shutdown_channel' = shutdown_channel - 1
    /\ hyper_server' = "draining"
    /\ UNCHANGED <<rocket_vars, dispatch_vars, write_vars,
                   shutdown_receiver, ctrl_c, warnings, tasks, completed>>

\* Fault: the server ends with the signal, whatever its requests.
CompleteAtOnce ==
    /\ hyper_server = "draining"
    /\ hyper_server' = "completed"
    /\ launched' = "Ok"
    /\ UNCHANGED <<manifest, pending, panic, applied, last_call, queued, events, found,
                   dispatch_vars, write_vars,
                   shutdown_receiver, shutdown_channel, ctrl_c, warnings, tasks, completed>>

\* the server future ends once the requests admitted have been answered,
\* and launch returns Ok(())
Complete ==
    /\ hyper_server = "draining"
    /\ \A i \in 1..Len(tasks) : tasks[i].pc = "done"
    /\ hyper_server' = "completed"
    /\ launched' = "Ok"
    /\ UNCHANGED <<manifest, pending, panic, applied, last_call, queued, events, found,
                   dispatch_vars, write_vars,
                   shutdown_receiver, shutdown_channel, ctrl_c, warnings, tasks, completed>>

ServeNext ==
    \/ Serve \/ Accept
    \/ TaskFromHyp \/ TaskRoute \/ TaskCatch \/ TaskRespond
    \/ CtrlC \/ Drain \/ Complete

ServeSpec == ServeInit /\ [][ServeNext]_vars

\* ServeSpec with every task and the server scheduled: the runtime polls
\* every spawned task and handlers, hooks and catchers return
FairServeSpec ==
    /\ ServeSpec
    /\ WF_vars(Serve) /\ WF_vars(Drain) /\ WF_vars(Complete)
    /\ WF_vars(TaskFromHyp) /\ WF_vars(TaskRoute) /\ WF_vars(TaskCatch)
    /\ WF_vars(TaskRespond)

(***************************************************************************)
(* Properties of DispatchSpec.                                             *)
(***************************************************************************)
Count(log, x) == Len(SelectSeq(log, LAMBDA p : p = x))

Last(log) == log[Len(log)]

PhaseOrder ==
    <<"preprocess", "on_request", "was_head_request", "routing",
      "server_header", "on_response", "strip_body", "return">>

PhaseRank(p) ==
    CASE p = "preprocess" -> 1
      [] p = "on_request" -> 2
      [] p = "was_head_request" -> 3
      [] p = "routing" -> 4
      [] p = "server_header" -> 5
      [] p = "on_response" -> 6
      [] p = "strip_body" -> 7
      [] p = "return" -> 8

\* how many steps a phase takes when it runs to completion (routing: at least)
PhaseSteps(p) ==
    CASE p \in {"on_request", "on_response"} -> Len(Fairings)
      [] OTHER -> 1

PhaseComplete(p) ==
    IF p = "routing"
    THEN /\ Count(phases, p) >= 1
         /\ pc \in {"handle_response", "return", "done"}
    ELSE Count(phases, p) = PhaseSteps(p)

\* C1: within one dispatch the phases run in the order preprocessing, all
\* on-request hooks, (sampling of the HEAD flag,) routing with its error
\* fallback, default Server header, all on-response hooks, body stripping,
\* return: no step of a phase follows a step of a later phase, no phase has
\* more steps than it needs, a phase starts only when every earlier phase is
\* complete, and at the end every phase is complete.
C1_PhaseOrder ==
    /\ \A i \in 1..(Len(phases) - 1) : PhaseRank(phases[i]) <= PhaseRank(phases[i + 1])
    /\ \A k \in {1, 2, 3, 5, 6, 7, 8} :
          Count(phases, PhaseOrder[k]) <= PhaseSteps(PhaseOrder[k])
    /\ phases # <<>> =>
          \A j \in 1..(PhaseRank(Last(phases)) - 1) : PhaseComplete(PhaseOrder[j])
    /\ pc = "done" => \A k \in 1..Len(PhaseOrder) : PhaseComplete(PhaseOrder[k])

C1_Witness ==
    /\ pc = "done"
    /\ Len(Fairings) >= 1
    /\ arrival.method = "POST" /\ was_head_request
    /\ caught # <<>>

\* the handler invocations of the current call of route()
ThisPass == SelectSeq(handled, LAMBDA h : h.pass = passes)

Candidates == RouterRoute(manifest.router, method, uri)

\* C2: in one call of route() the handlers of the matching routes are
\* invoked in the order the router returns them, each at most once and with
\* the route bound to the request; every invocation but the last forwarded;
\* a Success or Failure ends the pass and is its outcome; the pass ends in
\* Forward exactly when every candidate (possibly none) forwarded.
C2_RoutingPass ==
    pc \in {"route", "routed"} =>
        LET H == ThisPass
            C == Candidates
        IN /\ Len(H) <= Len(C)
           /\ \A i \in 1..Len(H) : H[i].route = C[i] /\ H[i].bound = C[i]
           /\ \A i, j \in 1..Len(H) : i < j => H[i].route # H[j].route
           /\ \A i \in 1..(Len(H) - 1) : H[i].outcome.kind = "Forward"
           /\ pc = "route" =>
                /\ \A i \in 1..Len(H) : H[i].outcome.kind = "Forward"
                /\ matches = SubSeq(C, Len(H) + 1, Len(C))
           /\ pc = "routed" =>
                IF H # <<>> /\ Last(H).outcome.kind # "Forward"
                THEN outcome = Last(H).outcome
                ELSE outcome.kind = "Forward" /\ Len(H) = Len(C)

C2_Witness ==
    /\ pc = "routed"
    /\ Len(ThisPass) = 2
    /\ outcome.kind = "Success"
    /\ manifest.router[1] = ThisPass[2].route

\* the data a pass holds after the invocations logged so far
DataAfter(H) == IF H = <<>> THEN given ELSE Last(H).outcome.data

\* C3: the first candidate of a pass is given the data the pass was given,
\* every later candidate the data the candidate before it forwarded, and a
\* pass that ends in Forward returns the data the last candidate forwarded
\* (the data the pass was given when there was no candidate).
C3_DataForwarded ==
    pc \in {"route", "routed"} =>
        LET H == ThisPass
        IN /\ \A i \in 1..Len(H) : H[i].data = DataAfter(SubSeq(H, 1, i - 1))
           /\ pc = "route" => data = DataAfter(H)
           /\ (pc = "routed" /\ outcome.kind = "Forward") => outcome.data = DataAfter(H)

C3_Witness ==
    /\ pc = "routed"
    /\ outcome.kind = "Forward"
    /\ Len(ThisPass) = 2
    /\ ThisPass[1].outcome.data = "d1" /\ ThisPass[2].data = "d1"
    /\ ThisPass[2].outcome.data = "d0" /\ outcome.data = "d0"

\* C4: a pass that ends in Forward is followed, for a HEAD request, by the
\* rewrite of the method to GET and a second pass, and for any other method
\* (the GET retry included) by the 404 catcher path; route() is entered at
\* most twice, the second time only as the GET retry of a request that was
\* HEAD when its first pass forwarded.
C4_HeadRetryOnce ==
    [][/\ (pc = "routed" /\ outcome.kind = "Forward" /\ method = "HEAD") =>
            (method' = "GET" /\ pc' = "route_and_process" /\ data' = outcome.data)
       /\ (pc = "routed" /\ outcome.kind = "Forward" /\ method # "HEAD") =>
            (pc' = "handle_error" /\ status' = 404 /\ method' = method)
       /\ (pc = "route_and_process" /\ passes >= 1) => pc' = "route"
       /\ passes' # passes =>
            /\ passes' = passes + 1
            /\ passes' <= 2
            /\ passes' = 2 =>
                 /\ was_head_request /\ method = "GET" /\ outcome.kind = "Forward"
                 /\ \A i \in 1..Len(handled) : handled[i].method = "HEAD"
      ]_vars

C4_Witness ==
    /\ passes = 2
    /\ pc = "handle_error"
    /\ outcome.kind = "Forward"
    /\ Len(handled) = 2
    /\ handled[1].pass = 1 /\ handled[2].pass = 2

\* the response once dispatch has returned
Final == returned[1]

SameHead(r1, r2) ==
    /\ r1.status = r2.status
    /\ r1.server = r2.server
    /\ r1.set_cookie = r2.set_cookie
    /\ r1.body.kind = r2.body.kind
    /\ r1.body.size = r2.body.size

\* C5 as stated: a request whose inbound method was HEAD is answered
\* without body, status and headers as they were.
C5_StrippedIfArrivedAsHead ==
    (pc = "done" /\ arrival.method = "HEAD") =>
        Final.body.bytes = 0 /\ SameHead(unstripped, Final)

\* C5, amended: if the method of the request is HEAD once preprocessing and
\* the on-request hooks have run (as it is for a request that arrived as HEAD
\* when no on-request hook rewrote its method), the response returned has no
\* body bytes while status, headers and the size of a sized body are those
\* of the response before stripping, whoever produced it; when the response
\* comes from the GET retry, the handlers tried were the candidates of a GET
\* request and saw the method GET.
C5_StrippedIfHeadAfterHooks ==
    /\ (pc = "done" /\ was_head_request) =>
          /\ Final.body.bytes = 0
          /\ SameHead(unstripped, Final)
          /\ passes = 2 =>
                /\ method = "GET"
                /\ \A i \in 1..Len(ThisPass) :
                      /\ ThisPass[i].route = RouterRoute(manifest.router, "GET", uri)[i]
                      /\ ThisPass[i].method = "GET"
    /\ (pc \in {"route_and_process", "route"} /\ arrival.method = "HEAD" /\ passes = 0
        /\ \A i \in 1..Len(Fairings) : Fairings[i] \notin {"rewrite_get", "rewrite_head"})
          => was_head_request

C5_Witness ==
    /\ pc = "done"
    /\ arrival.method = "HEAD"
    /\ was_head_request
    /\ passes = 2
    /\ producer \in RouteKinds /\ producer.method = "GET"
    /\ unstripped.body.bytes > 0
    /\ Final.body.bytes = 0
\* the catcher handle_error has to invoke first for a status
Selected(st) ==
    IF st \in DOMAIN manifest.catchers THEN manifest.catchers[st]
    ELSE manifest.catchers[500]

\* C6: handle_error invokes first the active catcher of exactly the status,
\* or the active 500 catcher when the status has none; when that catcher
\* fails, the seeded default 500 catcher (never a registered one) is invoked
\* and its response is the result; no more than two catchers are invoked,
\* the response is the one of the last catcher invoked, and handle_error is
\* never left without a next step before it has a response.
C6_CatcherFallback ==
    /\ Len(caught) <= 2
    /\ caught # <<>> => caught[1] = Selected(status)
    /\ Len(caught) = 2 =>
          /\ caught[2] = DefaultCatchers[500]
          /\ caught[2].is_default
          /\ pc # "catch"
    /\ pc = "catch" => (caught = <<>> /\ catcher = Selected(status) /\ ENABLED Catch)
    /\ pc = "default_500" => (Len(caught) = 1 /\ ENABLED Default500)
    /\ (pc = "set_cookies" /\ caught # <<>>) =>
          /\ producer = Last(caught)
          /\ response = CatcherResponse(Last(caught))
          /\ ENABLED SetCookies

C6_Witness ==
    /\ pc = "set_cookies"
    /\ status = 599
    /\ 599 \notin DOMAIN manifest.catchers
    /\ Len(caught) = 2
    /\ caught[1] = manifest.catchers[500]
    /\ ~caught[1].is_default
    /\ producer.is_default

\* the last handler invoked added a cookie and returned an outcome of the kind
CookieThen(kind) ==
    /\ handled # <<>>
    /\ Last(handled).adds_cookie
    /\ Last(handled).outcome.kind = kind
    /\ outcome.kind = kind

NoHookOnCookies == \A i \in 1..Len(Fairings) : Fairings[i] # "uncookie"

\* route_and_process has returned to dispatch
Processed == pc = "processed" /\ frames = 0

\* C8 as stated: a cookie added by a handler that then fails is not among
\* the headers of the final response, a cookie added by a handler that
\* then succeeds is.
C8_CookieInFinalResponse ==
    pc = "done" =>
        /\ CookieThen("Failure") => Final.set_cookie["handler"] = 0
        /\ CookieThen("Success") => Final.set_cookie["handler"] >= 1

\* C8, amended: in the response route_and_process returns (and in the final
\* response whenever no on-response hook removes cookie headers) a cookie
\* added by a handler that then returned Failure is absent, only the
\* cookies the catcher added being appended, once each; a cookie added by a
\* handler that then returned Success is present.
C8_CookieIsolation ==
    /\ (Processed /\ CookieThen("Failure")) =>
          /\ response.set_cookie["handler"] = 0
          /\ response.set_cookie["fairing"] = 0
          /\ response.set_cookie["catcher"] = (IF "catcher" \in cookies THEN 1 ELSE 0)
    /\ (Processed /\ CookieThen("Success")) => response.set_cookie["handler"] = 1
    /\ pc = "done" =>
          /\ CookieThen("Failure") => Final.set_cookie["handler"] = 0
          /\ (CookieThen("Success") /\ NoHookOnCookies) => Final.set_cookie["handler"] = 1

C8_Witness ==
    /\ pc = "done"
    /\ CookieThen("Failure")
    /\ ~producer.is_default
    /\ Final.set_cookie["catcher"] = 1
    /\ Final.set_cookie["handler"] = 0

\* DispatchSpec with every step of a dispatch eventually taken: handlers,
\* hooks and catchers return
FairDispatchSpec == DispatchSpec /\ WF_vars(DispatchNext)

\* C9: under FairDispatchSpec every dispatch reaches the point where it has
\* returned, whatever the handlers and catchers did; no response is
\* returned before that point and exactly one at it.
C9_DispatchReturns ==
    /\ <>(pc = "done")
    /\ [](IF pc = "done" THEN Len(returned) = 1 /\ returned[1] = response
                         ELSE returned = <<>>)

C9_Witness ==
    /\ pc = "done"
    /\ Len(returned) = 1
    /\ passes = 2
    /\ Len(caught) = 2
    /\ arrival.method = "HEAD"

(***************************************************************************)
(* Properties of BuildSpec.                                                *)
(***************************************************************************)
RECURSIVE Registered(_)
\* the catchers of the Register operations of a log of operations, in order
Registered(ops) ==
    IF ops = <<>> THEN <<>>
    ELSE (IF Head(ops).op = "Register" THEN Head(ops).catchers ELSE <<>>)
         \o Registered(Tail(ops))

LastWithCode(cs, code) ==
    cs[CHOOSE i \in 1..Len(cs) :
          /\ cs[i].code = code
          /\ \A k \in (i + 1)..Len(cs) : cs[k].code # code]

\* C7: whatever was registered, the active catcher table has an entry for
\* 500 and the default table is the seeded one; the active table holds, for
\* every code ever registered, the catcher registered last for it and, for
\* every other seeded code, the seeded default: no entry is ever removed.
C7_CatcherTables ==
    manifest # NoManifest =>
        LET cs == Registered(applied)
            codes == {cs[i].code : i \in 1..Len(cs)}
        IN /\ manifest.default_catchers = DefaultCatchers
           /\ 500 \in DOMAIN manifest.catchers
           /\ DOMAIN manifest.catchers = DefaultCodes \cup codes
           /\ \A code \in DOMAIN manifest.catchers :
                 manifest.catchers[code] =
                    IF code \in codes THEN LastWithCode(cs, code)
                    ELSE DefaultCatchers[code]

C7_Witness ==
    /\ manifest # NoManifest
    /\ Len(Registered(applied)) >= 3
    /\ manifest.catchers[404].name = "user_a"
    /\ manifest.catchers[500].name = "user_b"
    /\ 599 \in DOMAIN manifest.catchers
    /\ manifest.default_catchers[500].is_default

InspectCalls == {"inspect", "inspect again"}

\* C10: a call that actualizes and completes leaves the pending queue empty
\* and the manifest in place; a call that actualizes when nothing is
\* pending, in particular one that follows another with no operation queued
\* in between, changes neither the manifest (routes, catchers, managed
\* state, fairings) nor the log of applied operations and does not panic.
C10_ActualizeIdempotent ==
    [][last_call' \in InspectCalls =>
          /\ panic' = None => (pending' = <<>> /\ manifest' # NoManifest)
          /\ pending = <<>> =>
                (manifest' = manifest /\ applied' = applied /\ panic' = None)
          /\ last_call' = "inspect again" =>
                (pending = <<>> /\ UNCHANGED <<manifest, pending, panic, applied>>)
      ]_vars

C10_Witness ==
    /\ last_call = "inspect again"
    /\ pending = <<>>
    /\ Len(applied) >= 2
    /\ manifest # NoManifest
    /\ Len(manifest.router) >= 1
    /\ manifest.fairings.all # <<>>

\* the calls that actualize the manifest
ActualizingCalls == InspectCalls \cup {"state", "launch"}

\* the operations an attach fairing's on_attach queues when op attaches it
HookCalls(op) ==
    IF op.op = "Attach" /\ op.fairing.is_attach THEN op.fairing.calls ELSE <<>>

\* the operations a queue stands for: each one followed by what its hook
\* queues, to any depth
RECURSIVE Drained(_)
Drained(ops) ==
    IF ops = <<>> THEN <<>>
    ELSE <<Head(ops)>> \o Drained(HookCalls(Head(ops))) \o Drained(Tail(ops))

\* the entries of the log of applied operations that were taken from the
\* queue of the Rocket itself, not from the queue of a hook's Rocket
RECURSIVE TopLevel(_)
TopLevel(log) ==
    IF log = <<>> THEN <<>>
    ELSE <<Head(log)>> \o
         TopLevel(SubSeq(log, 2 + Len(Drained(HookCalls(Head(log)))), Len(log)))

IsPrefix(s, t) == Len(s) <= Len(t) /\ SubSeq(t, 1, Len(s)) = s

\* C11: the operations queued by mount, register, manage and attach are
\* applied in the order they were queued, each exactly once, and an applied
\* operation is no longer in the queue: the operations applied from the
\* queue followed by the ones still pending are the ones queued, in order.
C11_QueueOrder ==
    /\ IsPrefix(TopLevel(applied), queued)
    /\ panic = None => TopLevel(applied) \o pending = queued
    /\ panic = None /\ last_call \in ActualizingCalls =>
          (pending = <<>> /\ TopLevel(applied) = queued)

C11_Witness ==
    /\ panic = None
    /\ last_call = "inspect"
    /\ Len(queued) = 3
    /\ queued[1].op = "Manage" /\ queued[2].op = "Mount" /\ queued[3].op = "Register"
    /\ applied = queued

\* C12: when a call that actualizes completes, every operation an attach
\* hook queued on the Rocket it was given, at any depth of nesting, has been
\* applied, right after the attach that ran the hook, and nothing is pending.
C12_NestedDrained ==
    /\ panic = None => applied \o Drained(pending) = Drained(queued)
    /\ panic = None /\ last_call \in ActualizingCalls =>
          (pending = <<>> /\ applied = Drained(queued))
    /\ panic # None => IsPrefix(applied, Drained(queued))

C12_Witness ==
    /\ panic = None
    /\ last_call = "inspect"
    /\ queued = <<OpAttach(NestFairing), OpManage("T2", "v1")>>
    /\ applied = <<OpAttach(NestFairing), OpAttach(MountFairing),
                   OpMount(HiBase, <<WorldRoute>>), OpManage("T1", "v2"),
                   OpManage("T2", "v1")>>
    /\ pending = <<>>
    /\ Len(manifest.router) = 1
    /\ manifest.state["T1"] = "v2"

\* the calls that queue a build operation, and the operation each queues
BuildCalls == {"mount", "register", "manage", "attach"}

QueuedBy(call) ==
    CASE call = "mount" -> "Mount"
      [] call = "register" -> "Register"
      [] call = "manage" -> "Manage"
      [] call = "attach" -> "Attach"

\* C13: a call of mount (with a valid base), register, manage or attach
\* appends exactly one operation, its own, to the pending queue and changes
\* nothing else: the manifest (routes, catchers, managed state, fairings) is
\* unchanged and no operation is applied, so no hook or thunk has run; the
\* manifest changes only in a call that actualizes.
C13_QueueOnly ==
    [][/\ last_call' \in BuildCalls /\ panic' = None =>
             /\ pending' = Append(pending, Last(queued'))
             /\ queued' = Append(queued, Last(queued'))
             /\ Last(queued').op = QueuedBy(last_call')
             /\ UNCHANGED <<manifest, applied, launched, events, found>>
       /\ manifest' # manifest => last_call' \in ActualizingCalls
      ]_vars

C13_Witness ==
    /\ last_call = "attach"
    /\ panic = None
    /\ pending = <<OpManage("T1", "v1"), OpAttach(NestFairing)>>
    /\ applied = <<OpMount(HelloBase, <<WorldRoute>>)>>
    /\ manifest.fairings.all = <<>>
    /\ "T1" \notin DOMAIN manifest.state
    /\ Len(manifest.router) = 1

\* C14: an attach call with an attach fairing runs the fairing's on_attach
\* during the call: when the call returns the attach has been applied, before
\* any later call queues its operation.
C14_AttachRunsImmediately ==
    [][last_call' = "attach" /\ Len(queued') > Len(queued)
          /\ Last(queued').fairing.is_attach =>
             /\ Len(applied') > Len(applied)
             /\ applied'[Len(applied) + 1] = Last(queued')
      ]_vars

DuplicateManage == "Aborting due to duplicately managed state."

\* the Manage operations of a sequence of operations, in order
Manages(ops) == SelectSeq(ops, LAMBDA op : op.op = "Manage")

\* a type is managed twice in a sequence of operations
ManagedTwice(ops) ==
    \E i, k \in 1..Len(Manages(ops)) :
        i < k /\ Manages(ops)[i].type = Manages(ops)[k].type

\* C15: a manage call never fails, it queues its operation; the build panics
\* with the duplicate-state message exactly when an actualization applies a
\* Manage of a type an earlier applied Manage has set, so never while the
\* managed types are pairwise different; the panic comes in a call that
\* actualizes, when nothing was launched and no request was served.
C15_DuplicateManage ==
    /\ last_call = "manage" => panic = None /\ Last(pending).op = "Manage"
    /\ panic = DuplicateManage <=> ManagedTwice(applied)
    /\ panic = DuplicateManage =>
          /\ last_call \in ActualizingCalls
          /\ Last(applied).op = "Manage"
          /\ manifest = NoManifest
          /\ launched = None /\ events = <<>>

C15_Witness ==
    /\ panic = DuplicateManage
    /\ last_call = "launch"
    /\ queued = <<OpManage("T2", "v1"), OpManage("T1", "v1"), OpManage("T1", "v1")>>
    /\ applied = queued
    /\ pending = <<>>

\* the value the build calls made so far manage for a type: the value of
\* the first manage of that type, by a call or by an attach hook, or None
ManagedValue(type) ==
    LET of_type == SelectSeq(Manages(Drained(queued)), LAMBDA op : op.type = type)
    IN IF of_type = <<>> THEN None ELSE of_type[1].value

\* C16: every lookup of managed state, by Rocket::state before the launch
\* and by every request served after it, returns the value that was managed
\* for the type, and None for a type that was never managed; a lookup does
\* not fail.
C16_StateRoundTrip ==
    [][\/ last_call' = "state" /\ panic' = None
       \/ Len(events') > Len(events) /\ launched = "Ok"
       => /\ found'.value = ManagedValue(found'.type)
          /\ found'.type \in LookupTypes
          /\ panic' = None
          /\ manifest' # NoManifest
          /\ last_call' # "state" => manifest' = manifest
      ]_vars

C16_Witness ==
    /\ found = [type |-> "T1", value |-> "v2", by |-> "request"]
    /\ events[Len(events)] = "request" /\ events[Len(events) - 1] = "request"
    /\ queued = <<OpManage("T2", "v1"), OpManage("T1", "v2")>>
    /\ manifest.state["T2"] = "v1"
    /\ "T3" \notin DOMAIN manifest.state

\* the build failed: a call panicked or the prelaunch check returned an error
BuildErrors == {"Collision", "FailedFairings"}
BuildFailed == panic # None \/ launched \in BuildErrors

\* an attach fairing queued so far, by a call or by a hook, reports failure
FairingFails ==
    \E i \in 1..Len(Drained(queued)) :
        LET op == Drained(queued)[i]
        IN op.op = "Attach" /\ op.fairing.is_attach /\ ~op.fairing.ok

\* C17: every build-time error ends the startup.  A mount point with a
\* query panics in the mount call and queues nothing; an invalid route URI
\* and a duplicate managed type panic in a call that actualizes; a route
\* collision and a failed attach fairing make launch return the error of the
\* prelaunch check, which runs once, with nothing pending, and reports the
\* collision when both are there.  After any of them the state is not
\* frozen, no launch hook has run, no listener is bound, no request is
\* served, and no further step is taken.
C17_BuildErrorsAbort ==
    /\ [](BuildFailed =>
             /\ manifest # NoManifest => ~manifest.frozen
             /\ \A i \in 1..Len(events) :
                    events[i] \notin {"bind", "freeze", "launch hook", "serve", "request"}
             /\ ~ENABLED BuildNext)
    /\ [](panic \in {"Invalid route URI.", DuplicateManage} =>
             last_call \in ActualizingCalls /\ manifest = NoManifest)
    /\ [](last_call = "launch" /\ panic = None =>
             /\ pending = <<>> /\ applied = Drained(queued)
             /\ Len(SelectSeq(events, LAMBDA e : e = "prelaunch_check")) = 1
             /\ launched = "Collision" <=> RouterCollides(manifest.router)
             /\ launched = "FailedFairings" <=>
                    (FairingFails /\ ~RouterCollides(manifest.router)))
    /\ [](launched \in BuildErrors => last_call = "launch" /\ panic = None)
    /\ [][panic' = "Invalid mount point." /\ panic = None =>
             /\ last_call' = "mount"
             /\ UNCHANGED <<manifest, pending, queued, applied, launched, events>>
         ]_vars

C17_Witness ==
    /\ launched = "Collision"
    /\ queued = <<OpAttach(NestFairing), OpMount(HiBase, <<WorldRoute>>)>>
    /\ manifest.fairings.attach_failures = <<"nester">>
    /\ Len(manifest.router) = 2
    /\ events = <<"actualize", "prelaunch_check">>

\* the places of an event in the log of the launch
Places(e) == {i \in 1..Len(events) : events[i] = e}

\* the container is frozen exactly once, by a launch that went through:
\* after every pending operation, hook-queued ones included, was applied and
\* the prelaunch check passed, before every launch hook and every request;
\* a frozen container is never inserted into again
FrozenAtLaunch ==
    /\ [](manifest # NoManifest => (manifest.frozen <=> launched = "Ok"))
    /\ [](Places("freeze") # {} <=> launched = "Ok")
    /\ [](launched = "Ok" =>
             /\ Cardinality(Places("freeze")) = 1
             /\ pending = <<>> /\ applied = Drained(queued)
             /\ ~RouterCollides(manifest.router) /\ ~FairingFails
             /\ \A f \in Places("freeze") :
                    /\ \A i \in Places("actualize") \cup Places("prelaunch_check") : i < f
                    /\ \A i \in Places("launch hook") \cup Places("request") : f < i
             /\ ~ENABLED Manage /\ ~ENABLED Inspect)
    /\ [][manifest # NoManifest /\ manifest.frozen =>
             manifest' = manifest /\ applied' = applied]_vars

\* C18 as stated: the freeze happens once, at launch, in its place, and no
\* lookup of user code sees the container before the freeze.
C18_NoLookupBeforeFreeze ==
    /\ FrozenAtLaunch
    /\ [](found # NoLookup => manifest # NoManifest /\ manifest.frozen)

\* C18, amended: the freeze happens once, at launch, in its place; the
\* lookups of request handlers see the frozen container only, while user code
\* that holds the Rocket looks up with Rocket::state, always before the
\* freeze and the launch.
C18_FreezeLifecycle ==
    /\ FrozenAtLaunch
    /\ [][found'.by = "request" /\ found' # found =>
             manifest.frozen /\ manifest' = manifest]_vars
    /\ [][found'.by = "state" /\ found' # found =>
             /\ ~manifest.frozen /\ ~manifest'.frozen
             /\ launched' = None /\ events' = <<>>]_vars

C18_Witness ==
    /\ launched = "Ok"
    /\ manifest.frozen
    /\ events = <<"actualize", "prelaunch_check", "bind", "freeze", "launch hook",
                  "serve", "request">>
    /\ queued = <<OpManage("T1", "v1"), OpAttach(PlainFairing), OpAttach(MountFairing)>>
    /\ found = [type |-> "T1", value |-> "v1", by |-> "request"]

\* a lookup made by Rocket::state before any launch
C18_LookupBeforeFreeze ==
    /\ found = [type |-> "T1", value |-> "v1", by |-> "state"]
    /\ launched = None
    /\ ~manifest.frozen

\* the routes a sequence of operations mounts: each route of each Mount, in
\* order, at the base of its Mount followed by its declared path
RECURSIVE Mounted(_)
Mounted(ops) ==
    IF ops = <<>> THEN <<>>
    ELSE LET op == Head(ops)
         IN (IF op.op = "Mount"
             THEN [i \in 1..Len(op.routes) |->
                      [method |-> op.routes[i].method,
                       base |-> op.base,
                       path |-> op.routes[i].path,
                       uri |-> op.base \o op.routes[i].path,
                       rank |-> op.routes[i].rank]]
             ELSE <<>>) \o Mounted(Tail(ops))

\* C19: while the build has not panicked, the iteration over the routes
\* yields exactly the routes of the Mount operations applied so far, one for
\* each route of each Mount, none dropped, merged or duplicated; each is at
\* its base followed by its declared path and the router finds it there;
\* after an actualization these are the routes of every mount queued.
C19_MountRoundTrip ==
    panic = None =>
        /\ ManifestRoutes(manifest) = Mounted(applied)
        /\ \A i \in 1..Len(ManifestRoutes(manifest)) :
              LET mounted == ManifestRoutes(manifest)[i]
                  reached == RouterRoute(manifest.router, mounted.method, mounted.uri)
              IN /\ mounted.uri = mounted.base \o mounted.path
                 /\ \E k \in 1..Len(reached) : reached[k] = mounted
        /\ last_call \in ActualizingCalls =>
              ManifestRoutes(manifest) = Mounted(Drained(queued))

C19_Witness ==
    /\ panic = None
    /\ last_call = "inspect"
    /\ queued = <<OpMount(HelloBase, <<WorldRoute>>), OpMount(HiBase, <<WorldRoute>>),
                  OpAttach(MountFairing)>>
    /\ Len(ManifestRoutes(manifest)) = 3
    /\ ManifestRoutes(manifest)[1].uri = <<"hello", "world">>
    /\ ManifestRoutes(manifest)[2].uri = <<"hi", "world">>
    /\ ManifestRoutes(manifest)[3].uri = <<"hi", "world">>

\* the names of the fairings a queue of operations attaches: each fairing,
\* then the fairings its hook attaches, then the ones of the later operations
RECURSIVE AttachOrder(_)
AttachOrder(ops) ==
    IF ops = <<>> THEN <<>>
    ELSE (IF Head(ops).op = "Attach"
          THEN <<Head(ops).fairing.name>> \o AttachOrder(HookCalls(Head(ops)))
          ELSE <<>>) \o AttachOrder(Tail(ops))

Before(k) ==
    [actualize_manifest([ThisRocket EXCEPT !.pending = SubSeq(pending, 1, k - 1)])
        EXCEPT !.pending = SubSeq(pending, k + 1, Len(pending))]

\* C30: what an attach hook queues is applied in a nested pass, after the
\* hook returned and before every operation queued on the outer Rocket after
\* the Attach: in the log of applied operations each operation taken from
\* the outer queue is followed by all that its hook queued, and with
\* attach(F), mount(A), F mounting B, the routes of B precede the routes of
\* A. The Rocket the hook is handed has an empty queue and a manifest with
\* the routes of the operations applied before it only, whatever the outer
\* Rocket still has pending.
C30_NestedPass ==
    panic = None =>
        /\ \A i \in 1..Len(TopLevel(applied)) :
              LET at == i + Len(Drained(SubSeq(queued, 1, i - 1))) - (i - 1)
                  nested == Drained(HookCalls(queued[i]))
              IN /\ applied[at] = queued[i]
                 /\ SubSeq(applied, at + 1, at + Len(nested)) = nested
                 /\ i < Len(TopLevel(applied)) =>
                       applied[at + Len(nested) + 1] = queued[i + 1]
        /\ (last_call \in ActualizingCalls /\ Len(queued) >= 2
               /\ queued[1] = OpAttach(MountFairing)
               /\ queued[2] = OpMount(HelloBase, <<WorldRoute>>)) =>
              /\ ManifestRoutes(manifest)[1].uri = <<"hi", "world">>
              /\ ManifestRoutes(manifest)[2].uri = <<"hello", "world">>
        /\ manifest # NoManifest =>
              \A k \in 1..Len(pending) :
                 (pending[k].op = "Attach" /\ Before(k).panic = None) =>
                    LET seen == HookRocket(Before(k))
                    IN /\ seen.pending = <<>>
                       /\ seen.manifest.router =
                             Mounted(applied \o Drained(SubSeq(pending, 1, k - 1)))
                       /\ seen.applied = applied \o Drained(SubSeq(pending, 1, k - 1))

C30_Witness ==
    /\ panic = None
    /\ last_call = "inspect"
    /\ queued = <<OpAttach(MountFairing), OpMount(HelloBase, <<WorldRoute>>)>>
    /\ applied = <<OpAttach(MountFairing), OpMount(HiBase, <<WorldRoute>>),
                   OpMount(HelloBase, <<WorldRoute>>)>>
    /\ Len(ManifestRoutes(manifest)) = 2
    /\ ManifestRoutes(manifest)[1].base = HiBase
    /\ ManifestRoutes(manifest)[2].base = HelloBase

(***************************************************************************)
(* Properties of ResponseSpec.                                             *)
(***************************************************************************)
\* the number a sequence of decimal digits stands for
RECURSIVE ParseDecimal(_)
ParseDecimal(text) ==
    IF text = <<>> THEN 0
    ELSE 10 * ParseDecimal(SubSeq(text, 1, Len(text) - 1))
            + (CHOOSE d \in 0..9 : Digits[d + 1] = text[Len(text)])

RECURSIVE Sum(_)
Sum(sizes) == IF sizes = <<>> THEN 0 ELSE Head(sizes) + Sum(Tail(sizes))

\* the chunks sent are full chunks of the given size, but for the last one
\* of a stream that has nothing left
ChunksOf(size) ==
    \A i \in 1..Len(sent) :
        /\ 0 < sent[i] /\ sent[i] <= size
        /\ sent[i] < size => (i = Len(sent) /\ stream = 0)

\* C20: once the response is sent, its status and headers are those of the
\* response; with no body the content-length is 0, the body is empty and no
\* chunk is ever sent; with a sized body the content-length is the size of
\* the body and the chunks are of 4096 bytes; with a chunked body no
\* content-length is added and the chunks are of the body's own chunk size;
\* a write that returns Ok has sent every byte of the body.
C20_WriteResponse ==
    /\ hyp_res = NoHyperResponse => sent = <<>> /\ pc \in {"write_response", "done"}
    /\ hyp_res # NoHyperResponse =>
          /\ hyp_res.status = response.status
          /\ hyp_res.server = response.server
          /\ hyp_res.set_cookie = response.set_cookie
          /\ CASE response.body.kind = "none" ->
                    /\ hyp_res.content_length = <<<<"0">>>>
                    /\ hyp_res.body = "empty"
                    /\ sent = <<>> /\ pc = "done" /\ write_result = "Ok"
               [] response.body.kind = "sized" ->
                    /\ Len(hyp_res.content_length) = 1
                    /\ ParseDecimal(hyp_res.content_length[1]) = response.body.size
                    /\ hyp_res.body = "channel"
                    /\ ChunksOf(4096)
               [] response.body.kind = "chunked" ->
                    /\ hyp_res.content_length = <<>>
                    /\ hyp_res.body = "channel"
                    /\ ChunksOf(response.body.chunk_size)
          /\ write_result # "Err(Other)" => Sum(sent) + stream = response.body.bytes
          /\ write_result = "Ok" => (stream = 0 /\ Sum(sent) = response.body.bytes)

C20_Witness ==
    /\ write_result = "Ok"
    /\ response.body = [ChunkedBody(25000) EXCEPT !.chunk_size = 8192]
    /\ response.set_cookie["handler"] = 1
    /\ hyp_res.set_cookie["handler"] = 1
    /\ sent = <<8192, 8192, 8192, 424>>

WriteErrors == {"Err(BrokenPipe)", "Err(Read)", "Err(Other)"}

C22_StopAtFirstError ==
    /\ [](/\ Len(sent) <= Len(produced)
          /\ \A i \in 1..Len(sent) : sent[i] = produced[i].size
          /\ \A i \in 1..Len(produced) :
                produced[i].at = Sum([k \in 1..(i - 1) |-> produced[k].size])
          /\ Len(produced) > Len(sent) =>
                /\ Len(produced) = Len(sent) + 1
                /\ write_result = "Err(Other)")
    /\ [](write_result \in WriteErrors =>
             /\ pc = "done" /\ panic = None
             /\ logged \in {None, "Failed to write response"})
    /\ [](write_result = "Err(Read)" => Len(produced) = Len(sent) /\ stream > 0)
    /\ [][write_result # None =>
             UNCHANGED <<sent, produced, stream, write_result, hyp_res>>]_vars

C22_Witness ==
    /\ write_result = "Err(Other)"
    /\ logged = "Failed to write response"
    /\ response.body = SizedBody(10000)
    /\ sent = <<4096>>
    /\ produced = <<[at |-> 0, size |-> 4096], [at |-> 4096, size |-> 4096]>>
    /\ stream = 1808

\* the on-request hooks of the manifest that set the method
Rewrites == SelectSeq(Fairings, LAMBDA f : f \in {"rewrite_get", "rewrite_head"})

\* the method routing starts with: what the last rewriting hook set, else
\* the method of the _method field of a POST form, else the arrival's
MethodAfterHooks ==
    IF Rewrites # <<>>
    THEN IF Last(Rewrites) = "rewrite_get" THEN "GET" ELSE "HEAD"
    ELSE IF arrival.method = "POST" /\ arrival.is_form /\ arrival.peek = MethodHeadField
         THEN "HEAD" ELSE arrival.method

\* C26 as stated: at the end of a dispatch every field of the request but
\* the matched route and the cookie delta, the method included, has the
\* value it had on arrival.
C26_OnlyRouteAndCookies ==
    pc = "done" =>
        /\ method = arrival.method
        /\ is_form = arrival.is_form
        /\ uri = RequestPath
        /\ peek = arrival.peek

\* C26, amended: during a dispatch the content type, the URI and the peeked
\* body prefix keep their values; the matched route is set only when a
\* candidate route is invoked, to that candidate; the cookie delta changes
\* only in on-request hooks, handlers and the error path; the method is
\* changed only by the preprocessing, by on-request hooks, and by the HEAD
\* autohandle, which sets GET and never restores HEAD, so the method at the
\* end is GET after an autohandle and the method routing started with
\* otherwise.
C26_RequestFrame ==
    /\ [][is_form' = is_form /\ uri' = uri /\ peek' = peek]_vars
    /\ [][route' # route => pc = "route" /\ matches # <<>> /\ route' = Head(matches)]_vars
    /\ [][cookies' # cookies =>
            pc \in {"handle_request", "route", "handle_error", "catch", "default_500"}]_vars
    /\ [][method' # method =>
            \/ pc \in {"dispatch", "handle_request"}
            \/ pc = "routed" /\ outcome.kind = "Forward" /\ method = "HEAD" /\ method' = "GET"]_vars
    /\ [](passes = 1 /\ pc \in {"route", "routed"} => method = MethodAfterHooks)
    /\ [](pc = "done" => method = IF passes = 2 THEN "GET" ELSE MethodAfterHooks)
    /\ [](passes = 2 => MethodAfterHooks = "HEAD" /\ was_head_request)

C26_Witness ==
    /\ pc = "done"
    /\ arrival.method = "POST" /\ Rewrites = <<>>
    /\ passes = 2
    /\ method = "GET"
    /\ route # NoRoute

\* one header for each cookie of the delta, none for any other cookie
OncePerEntry(r, delta) ==
    \A c \in CookieNames : r.set_cookie[c] = IF c \in delta THEN 1 ELSE 0

\* C29: in one dispatch each entry of the cookie delta is appended to the
\* response exactly once, whether a handler succeeded, a catcher answered
\* (the delta then holds the catcher's entries only) or a HEAD request was
\* retried as GET: the cookies are set on a response that has none yet, in
\* one step, and the pass that retried returns the retry's response as it is.
C29_DeltaOnce ==
    /\ [][pc = "set_cookies" =>
            /\ response.set_cookie = NoCookies
            /\ OncePerEntry(response', cookies)
            /\ pc' = "processed"]_vars
    /\ [][pc = "processed" =>
            /\ response'.set_cookie = response.set_cookie
            /\ pc' \in {"processed", "handle_response"}
            /\ cookies' = cookies]_vars
    /\ [](pc = "processed" =>
            /\ OncePerEntry(response, cookies)
            /\ outcome.kind # "Success" => cookies \subseteq {"catcher"})
    /\ [](pc = "done" /\ NoHookOnCookies => OncePerEntry(Final, cookies))

C29_Witness ==
    /\ pc = "done"
    /\ passes = 2
    /\ outcome.kind = "Success"
    /\ cookies = {"fairing", "handler"}
    /\ Final.set_cookie["handler"] = 1
    /\ Final.set_cookie["fairing"] = 1

\* C31: whether the body is stripped is decided once, when preprocessing
\* and the on-request hooks have run and before routing: the flag is set in
\* that one step, to whether the method is HEAD then, and the response
\* returned is the response before the stripping step without its body
\* bytes exactly when the method was HEAD at that point. A POST form with
\* _method=head or a request a hook turned into HEAD is stripped, a request
\* that arrived as HEAD and was turned into GET by a hook is not, and the GET
\* of the retry changes nothing.
C31_StripSampledOnce ==
    /\ [][was_head_request' # was_head_request =>
            /\ pc = "handle_request" /\ pc' = "route_and_process"
            /\ fairing > Len(Fairings) /\ passes = 0
            /\ was_head_request' = (method = "HEAD")]_vars
    /\ [](passes >= 1 => was_head_request = (MethodAfterHooks = "HEAD"))
    /\ [](pc = "done" =>
            /\ Final = IF MethodAfterHooks = "HEAD"
                       THEN [unstripped EXCEPT !.body.bytes = 0] ELSE unstripped
            /\ unstripped.body.bytes > 0
            /\ (Final.body.bytes = 0) = (MethodAfterHooks = "HEAD")
            /\ (arrival.method = "HEAD" /\ Rewrites = <<"rewrite_get">>) =>
                  Final.body.bytes > 0
            /\ (arrival.method = "GET" /\ Rewrites = <<"rewrite_head">>) =>
                  Final.body.bytes = 0
            /\ (arrival.method = "POST" /\ arrival.is_form /\ Rewrites = <<>>) =>
                  Final.body.bytes = 0
            /\ passes = 2 => (method = "GET" /\ Final.body.bytes = 0))

C31_Witness ==
    /\ pc = "done"
    /\ arrival.method = "POST" /\ arrival.is_form /\ Rewrites = <<>>
    /\ passes = 2 /\ method = "GET"
    /\ outcome.kind = "Success"
    /\ unstripped.body.bytes > 0
    /\ Final.body.bytes = 0

\* a handler invoked in this dispatch added a cookie
HandlerCookie == \E i \in 1..Len(handled) : handled[i].adds_cookie

\* an on-request hook added a cookie
HookCookie == \E i \in 1..Len(Fairings) : Fairings[i] = "cookie_body"

\* C32: entries leave the cookie delta only in the step that enters
\* handle_error, which empties it; a forward and the HEAD-to-GET retry leave
\* it as it is. So the response of a handler that returned Success carries
\* the cookie of every handler invoked before it, also of those that
\* forwarded and of those of the pass before the retry, and the cookie of
\* the on-request hooks; a response of the error path carries none of them.
C32_DeltaResetOnErrorOnly ==
    /\ [][~(cookies \subseteq cookies') => pc = "handle_error" /\ cookies' = {}]_vars
    /\ [][pc = "routed" /\ outcome.kind = "Forward" /\ method = "HEAD" =>
            cookies' = cookies]_vars
    /\ [](pc \in {"route", "routed"} =>
            /\ ("handler" \in cookies) = HandlerCookie
            /\ ("fairing" \in cookies) = HookCookie)
    /\ []((Processed /\ outcome.kind = "Success") =>
            /\ response.set_cookie["handler"] = (IF HandlerCookie THEN 1 ELSE 0)
            /\ response.set_cookie["fairing"] = (IF HookCookie THEN 1 ELSE 0))
    /\ []((Processed /\ outcome.kind # "Success") =>
            /\ response.set_cookie["handler"] = 0
            /\ response.set_cookie["fairing"] = 0)
    /\ []((pc = "done" /\ NoHookOnCookies) =>
            Final.set_cookie["handler"]
               = (IF outcome.kind = "Success" /\ HandlerCookie THEN 1 ELSE 0))

C32_Witness ==
    /\ pc = "done"
    /\ passes = 2
    /\ Len(handled) = 2
    /\ handled[1].pass = 1 /\ handled[1].outcome.kind = "Forward" /\ handled[1].adds_cookie
    /\ handled[2].pass = 2 /\ handled[2].outcome.kind = "Success" /\ ~handled[2].adds_cookie
    /\ Final.set_cookie["handler"] = 1

(***************************************************************************)
(* Properties of PreprocessSpec.                                           *)
(***************************************************************************)
\* the bytes of the peek preprocessing may look at
Prefix == SubSeq(peek, 1, Min(Len(peek), 14))

\* where a field with the key _method starts in the prefix: at the start or
\* after a '&', followed by '=', by '&' or by the end of the prefix
FieldStarts ==
    {i \in 1..Len(Prefix) :
        /\ i = 1 \/ Prefix[i - 1] = "&"
        /\ i + 6 <= Len(Prefix)
        /\ \A k \in 0..6 : Prefix[i + k] = MethodKey[k + 1]
        /\ i + 7 <= Len(Prefix) => Prefix[i + 7] \in {"=", "&"}}

\* the value of the field that starts at i: the bytes after its '=' up to
\* the next '&' or the end of the prefix
FieldValue(i) ==
    IF i + 7 > Len(Prefix) \/ Prefix[i + 7] = "&" THEN <<>>
    ELSE LET ends == {j \in (i + 8)..Len(Prefix) : Prefix[j] = "&"}
             last == IF ends = {} THEN Len(Prefix)
                     ELSE (CHOOSE j \in ends : \A k \in ends : j <= k) - 1
         IN SubSeq(Prefix, i + 8, last)

\* the methods whose name is the value, whatever the case of its letters
Named(value) == {m \in AllMethods : MethodText[m] = LowerStr(value)}

\* the method the request is to be given, if any
Override ==
    IF /\ is_form /\ method = "POST" /\ Len(peek) >= 11
       /\ \A i \in 1..Len(Prefix) : Prefix[i] # InvalidByte
       /\ FieldStarts # {}
    THEN Named(FieldValue(CHOOSE i \in FieldStarts : \A k \in FieldStarts : i <= k))
    ELSE {}

\* C27: preprocessing sets the method to the method named by the first
\* _method field within the first min(length, 14) bytes of the peek when
\* the request is a POST form, the peek has at least 11 bytes and those
\* bytes are valid UTF-8, and leaves the method unchanged in every other
\* case (a field beyond byte 14 or cut off at byte 14 included); it changes
\* neither the body nor the peek, the content type or the URI.
C27_MethodOverride ==
    /\ [][pc = "dispatch" =>
            /\ Override # {} => method' \in Override
            /\ Override = {} => method' = method
            /\ UNCHANGED <<data, peek, is_form, uri>>]_vars
    /\ [](pc = "handle_request" /\ arrival.peek \in {PeekCutOff, PeekBeyond, PeekShort} =>
            method = arrival.method)
    /\ [](pc = "handle_request" /\ method # arrival.method =>
            /\ arrival.is_form /\ arrival.method = "POST"
            /\ arrival.peek \in {PeekGet, PeekUpper, PeekLong, PeekSecond, PeekInvalidOutside})

C27_Witness ==
    /\ pc = "handle_request"
    /\ arrival.method = "POST" /\ arrival.is_form
    /\ arrival.peek = PeekLong
    /\ method = "DELETE"
    /\ peek = PeekLong /\ data = "d0"

(***************************************************************************)
(* Properties of ServiceSpec.                                              *)
(***************************************************************************)
\* C25: a request that cannot be converted aborts nothing and is answered:
\* the request handled is a made-up GET for the dummy origin, handle_error
\* runs for status 400 on it (the catcher of 400, else the active 500
\* catcher, then the default 500 catcher if that one fails) without a
\* dispatch, and the response of the catcher is issued, the hyper response
\* first and the body after it; the task ends only after issue_response has
\* logged the outcome of the write.
C25_BadRequestAnswered ==
    /\ [](panic = None /\ ~FromHypOk(arrival))
    /\ [](pc # "from_hyp" =>
             /\ method = "GET" /\ uri = DummyOrigin /\ status = 400
             /\ passes = 0 /\ handled = <<>> /\ returned = <<>>)
    /\ [](caught # <<>> =>
             /\ caught[1] = IF 400 \in DOMAIN manifest.catchers
                             THEN manifest.catchers[400] ELSE manifest.catchers[500]
             /\ Len(caught) = 2 => caught[2] = manifest.default_catchers[500]
             /\ Len(caught) <= 2)
    /\ [](pc \in {"write_response", "stream", "done"} =>
             response = CatcherResponse(Last(caught)))
    /\ [](hyp_res # NoHyperResponse =>
             hyp_res.status = Last(caught).code /\ hyp_res.server = None)
    /\ [](sent # <<>> => hyp_res # NoHyperResponse)
    /\ [](~ENABLED ServiceNext =>
             /\ logged # None
             /\ hyp_res # NoHyperResponse \/ write_result = "Err(BrokenPipe)")

C25_Witness ==
    /\ arrival.method = "BREW" /\ arrival.uri = BadPath
    /\ method = "GET"
    /\ Len(caught) = 2 /\ caught[1].name = "user" /\ caught[1].code = 500
    /\ hyp_res # NoHyperResponse /\ hyp_res.status = 500
    /\ sent = <<3>>
    /\ logged = "Response succeeded."

Triggered == shutdown_channel > 0 \/ hyper_server \in {"draining", "completed"}

\* C24: the receiver is taken from the manifest once, by the step that
\* starts the server, and a message is received from the channel once, by
\* the serving server, which then drains; requests are accepted only while
\* it serves; the server ends, and launch returns Ok, only from draining
\* with every admitted request answered; a failure to listen for the
\* interrupt logs the warning and changes nothing of the server; and every
\* trigger of the handle, by a handler or by the interrupt, leads to the
\* end of the server.
C24_GracefulShutdown ==
    /\ [][shutdown_receiver' # shutdown_receiver =>
            /\ shutdown_receiver = "Some" /\ shutdown_receiver' = "None"
            /\ hyper_server = "listen_on" /\ hyper_server' = "serving"]_vars
    /\ [](hyper_server # "listen_on" => shutdown_receiver = "None")
    /\ [][shutdown_channel' < shutdown_channel =>
            hyper_server = "serving" /\ hyper_server' = "draining"]_vars
    /\ [][hyper_server = "serving" /\ hyper_server' # "serving" =>
            shutdown_channel = 1 /\ shutdown_channel' = 0]_vars
    /\ [][Len(tasks') > Len(tasks) => hyper_server = "serving"]_vars
    /\ [](hyper_server \in {"draining", "completed"} => ~ENABLED Accept)
    /\ [][hyper_server' = "completed" /\ hyper_server # "completed" =>
            /\ hyper_server = "draining"
            /\ \A i \in 1..Len(tasks) : tasks[i].pc = "done"
            /\ launched' = "Ok"]_vars
    /\ [](launched = "Ok" <=> hyper_server = "completed")
    /\ [](panic = None)
    /\ [][ctrl_c # "failed" /\ ctrl_c' = "failed" =>
            /\ warnings' = Append(warnings, "Not listening for shutdown keybinding.")
            /\ UNCHANGED <<hyper_server, shutdown_channel, tasks, launched>>]_vars
    /\ [](ctrl_c = "failed" /\ hyper_server = "serving" /\ Len(tasks) < MaxRequests =>
            ENABLED Accept)
    /\ (Triggered ~> (hyper_server = "completed" /\ Len(completed) = Len(tasks)))

C24_Witness ==
    /\ hyper_server = "completed"
    /\ launched = "Ok"
    /\ ctrl_c = "failed"
    /\ warnings = <<"Not listening for shutdown keybinding.">>
    /\ Len(tasks) = 2
    /\ tasks[1].req.wants = "Shutdown"
    /\ completed = <<1, 2>>

====
